---- MODULE Spec2Model ----
(***************************************************************************)
(* Model of the ReportsDAY backend's report orchestration: the scheduler   *)
(* (CORE/scheduler.js: jobs, executeReport, execution history,             *)
(* getNextRun, setScheduledTimes, stopAll, updateD0) and the manual        *)
(* trigger route; and the Day Cache (DB-Reports/service.js: addCall,       *)
(* getTodayCalls, countTodayCalls, hasCache, getCacheTTL); the WhatsApp     *)
(* dispatcher called on its own (API-WHATSAPP/service.js: sendRelatorio,   *)
(* sendAnaliseHistorica, sendMessage); the websocket broadcaster          *)
(* (CORE/websocket.js: clients, broadcast); and the metrics service        *)
(* called on its own (API-55PBX/service.js: fetchTodayCalls,               *)
(* classifyCallStatus, calculateDayKPIs, fetchDayData,                     *)
(* fetchHistoricalData, classificarNivel).                                 *)
(*                                                                         *)
(* JavaScript runs one synchronous stretch at a time: the code between two *)
(* awaits of an async function is one atomic step.  Each action below is   *)
(* one such stretch of one handler.                                        *)
(*                                                                         *)
(* A "HH:MM" string is modelled as the tuple of its four digits            *)
(* <<h1, h2, m1, m2>> (the colon is at a fixed place and is left out).     *)
(***************************************************************************)
EXTENDS Integers, Sequences, FiniteSets, TLC

\* ------------------------------------------------------------------------
\* Bounds of the model
\* ------------------------------------------------------------------------

\* executions of executeReport that are started in one behaviour
MaxExec == 2

\* calls of setScheduledTimes in one behaviour
MaxReconfig == 1

\* length of the list handed to setScheduledTimes
MaxTimes == 2

\* records handed to addToHistory in one behaviour of SpecHistory
MaxRecorded == 60

\* failed executions among them
MaxFailures == 1

\* length of the schedule getNextRun is tried on
MaxNrTimes == 2

\* firings of the hourly refresh job in one behaviour
MaxRefresh == 2

\* addCall invocations in one behaviour
MaxAdds == 2

\* the last calendar day of the Day Cache's clock (days are 0, 1, ...)
MaxDay == 2

\* calls of sendRelatorio in one behaviour of SpecDispatch
MaxDispatch == 4

\* length of the lists of calls the metrics API answers with
MaxCalls == 3

\* the largest number of days fetchHistoricalData is called with
MaxDays == 3

\* the largest value and the largest mean classificarNivel is called with
MaxValor == 140
MaxMedia == 100

\* websocket connections opened in one behaviour
MaxViewers == 2

\* broadcast calls in one behaviour of SpecBroadcast
MaxPublish == 3

\* ------------------------------------------------------------------------
\* Program constants
\* ------------------------------------------------------------------------

\* executionHistory keeps the last 50 executions
HistoryCap == 50

\* a day has 86400 seconds (setDate(getDate() + 1); 'yyyy-MM-dd')
DaySeconds == 86400

\* "09:00" and "18:00" (the default schedule is ['18:00'])
T0900 == <<0, 9, 0, 0>>

T1800 == <<1, 8, 0, 0>>

Times == {T0900, T1800}

DefaultTimes == <<T1800>>

\* the lists of times setScheduledTimes may be given (repetitions included)
Schedules == UNION {[1..n -> Times] : n \in 1..MaxTimes}

\* values of kpis.totalCalls that the metrics API may yield
KpiValues == {1, 2}

\* "no kpis": the catch block's record has no kpis field
NoKpis == 0

\* origin of an execution started by POST /api/trigger (a task number otherwise)
Manual == 0

\* result.messageId: sendRelatorio returns {success, data} or {success, error}
Undefined == "undefined"

ExecIds == 1..MaxExec

\* getNextRun has not been called yet
NoRun == -1

VARIABLES
    scheduledTimes,     \* scheduler.js: let scheduledTimes
    jobs,               \* scheduler.js: const jobs = {}  (key -> task)
    tasks,              \* every task cron.schedule has created, by creation order
    executionHistory,   \* scheduler.js: const executionHistory = []
    ex,                 \* the invocations of executeReport, by invocation order
    waConfigured,       \* API-WHATSAPP/config.js: isConfigured()
    reconfigs,          \* number of setScheduledTimes calls so far
    stopped,            \* tasks that a stop operation found in the job table
    survivors,          \* invocations that were in flight at a stop operation
    recorded,           \* every record handed to addToHistory, oldest first
    now,                \* the clock getNextRun reads, in seconds
    nextRun,            \* what getNextRun returned last, in seconds
    acks,               \* what POST /api/trigger answered, by invocation started
    d0,                 \* the hourly refresh (updateD0)
    clock,              \* the clock the Day Cache reads (new Date()), in seconds
    callsFile,          \* DB.Reports/calls-<date>.json, by date
    metadataFile,       \* DB.Reports/metadata-<date>.json, by date
    adds,               \* the invocations of addCall, by invocation order
    rd,                 \* the read access in progress or last completed
    written,            \* when a call list of a date was last written (-1: never)
    wa,                 \* a call of sendRelatorio made on its own
    clients,            \* websocket.js: const clients = new Set(), in insertion order
    readyState,         \* ws.readyState of every connection
    inbox,              \* what was sent on every connection, in order
    published,          \* number of broadcast calls so far
    rejected,           \* send calls made on a connection that was not open
    publishers,         \* the invocation that made each broadcast call, in call order
    clientCount,        \* what getClientCount returned last (-1: never called)
    kp,                 \* a call of calculateDayKPIs (API-55PBX/service.js)
    hs,                 \* a call of fetchHistoricalData
    lv,                 \* a call of classificarNivel
    an,                 \* a call of analisarDiaAtual
    hook                \* a delivery to POST /webhook/55pbx

\* the Day Cache
cacheVars == <<clock, callsFile, metadataFile, adds, rd, written>>

\* the websocket broadcaster
wsVars == <<clients, readyState, inbox, published, rejected, publishers,
           clientCount>>

\* the metrics service called on its own
apiVars == <<kp, hs, lv, an, hook>>

\* what lies outside the report executions and the job table
beyondSched == <<d0, cacheVars, wa, wsVars, apiVars>>

\* what the scheduler's handlers never touch
outsideSched == <<recorded, now, nextRun, beyondSched>>

\* what only the stop operations write
stopGhosts == <<stopped, survivors>>

vars == <<scheduledTimes, jobs, tasks, executionHistory, ex, waConfigured,
          reconfigs, stopped, survivors, recorded, now, nextRun, acks, d0,
          clock, callsFile, metadataFile, adds, rd, written, wa, clients,
          readyState, inbox, published, rejected, publishers, clientCount, kp, hs,
          lv, an, hook>>

\* ------------------------------------------------------------------------
\* Execution history (scheduler.js addToHistory / getHistory)
\* ------------------------------------------------------------------------

\* faulty variant: the cap check drops the newest entry instead of the oldest
addToHistoryDropsNewest(h, execution) ==
    IF Len(h) + 1 > HistoryCap THEN h ELSE <<execution>> \o h

\* faulty variant: push at the tail instead of unshift at the head
addToHistoryAtTail(h, execution) ==
    LET h1 == Append(h, execution)
    IN  IF Len(h1) > HistoryCap THEN SubSeq(h1, 2, Len(h1)) ELSE h1

\* executionHistory.unshift(execution); if (length > 50) executionHistory.pop()
addToHistory(h, execution) ==
    LET h1 == <<execution>> \o h
    IN  IF Len(h1) > HistoryCap THEN SubSeq(h1, 1, Len(h1) - 1) ELSE h1

\* ------------------------------------------------------------------------
\* Jobs (scheduler.js initScheduler / setScheduledTimes / stopAll)
\* ------------------------------------------------------------------------

ReportKey(time) == <<"report", time>>

D0Key == <<"d0_update", <<>>>>

\* jobs[key] = task
SetJob(js, key, task) ==
    [k \in (DOMAIN js) \cup {key} |-> IF k = key THEN task ELSE js[k]]

\* cron.schedule(...): a new task, started at once
NewTask(ts, key) == Append(ts, [key |-> key, active |-> TRUE])

\* scheduledTimes.forEach(time => jobs[`report_${time}`] = cron.schedule(...))
RECURSIVE ScheduleReports(_, _, _)
ScheduleReports(st, times, i) ==
    IF i > Len(times) THEN st
    ELSE LET ts1 == NewTask(st.tasks, ReportKey(times[i]))
         IN  ScheduleReports(
                 [jobs |-> SetJob(st.jobs, ReportKey(times[i]), Len(ts1)),
                  tasks |-> ts1],
                 times, i + 1)

\* initScheduler(): the report jobs, then jobs['d0_update']
initScheduler(js, ts, times) ==
    LET st1 == ScheduleReports([jobs |-> js, tasks |-> ts], times, 1)
        ts2 == NewTask(st1.tasks, D0Key)
    IN  [jobs |-> SetJob(st1.jobs, D0Key, Len(ts2)), tasks |-> ts2]

\* the tasks the job table holds: Object.values(jobs)
JobTasks(js) == {js[k] : k \in DOMAIN js}

\* faulty variant: only the hourly refresh job is stopped
StopJobsOnlyRefresh(js, ts) ==
    [t \in DOMAIN ts |->
        IF t \in JobTasks(js) /\ ts[t].key = D0Key
        THEN [ts[t] EXCEPT !.active = FALSE] ELSE ts[t]]

\* Object.values(jobs).forEach(job => job.stop())
StopJobs(js, ts) ==
    [t \in DOMAIN ts |->
        IF t \in JobTasks(js) THEN [ts[t] EXCEPT !.active = FALSE] ELSE ts[t]]

EmptyJobs == [k \in {} |-> 0]

\* ------------------------------------------------------------------------
\* executeReport (scheduler.js), one record per invocation
\*
\*   pc       where the invocation is suspended:
\*            "idle"        not invoked yet
\*            "kpis"        await calculateDayKPIs()          (metrics request)
\*            "analiseKpis" await analisarDiaAtual(): its own calculateDayKPIs()
\*            "analiseHist" await analisarDiaAtual(): fetchHistoricalData(15)
\*            "send"        await sendRelatorio(): api.post of the report
\*            "delay"       sendAnaliseHistorica: the 2000 ms pause
\*            "sendAnalise" sendAnaliseHistorica: sendMessage's api.post
\*            "done"        returned its execution record
\*            "thrown"      rejected (an exception left the catch block)
\*   origin   the task whose callback invoked it, or Manual
\*   kpis     const kpis          (NoKpis until computed)
\*   hoje     analise.hoje        (the second KPI computation)
\*   analise  "none" | "null" (analise.analise is null) | "ok"
\*   trace    what the invocation has done so far, in program order
\*   msgs     the messages the messaging API accepted from this invocation
\*   posts    the api.post calls made for this invocation: <<kind, answered>>
\*   result   what sendRelatorio returned: "none" (not yet), "ok"
\*            ({success: true}), or the error of {success: false, error}
\* The locals kpis, hoje and analise go out of scope when the invocation ends.
\* ------------------------------------------------------------------------

IdleExec ==
    [pc |-> "idle", origin |-> Manual, kpis |-> NoKpis, hoje |-> NoKpis,
     analise |-> "none", result |-> "none", trace |-> <<>>, msgs |-> <<>>,
     posts |-> <<>>]

\* the identifier the messaging API gives the report message of invocation
\* e, in response.data of the api.post that sendRelatorio awaits
DispatchId(e) == ToString(e)

\* the object literals `execution` of the try block and of the catch block.
\* In the try block result is what sendRelatorio returned, {success: true,
\* data: response.data} or {success: false, error}, and the record takes
\* result.messageId; the record of the catch block has no messageId.
ExecRecord(e, success, kpis, error) ==
    LET result == IF success THEN [success |-> TRUE, data |-> DispatchId(e)]
                  ELSE [success |-> FALSE, error |-> error]
    IN  [exec |-> e, success |-> success, kpis |-> kpis,
         messageId |-> IF "messageId" \in DOMAIN result THEN result.messageId
                       ELSE Undefined,
         error |-> error]

Log(x, n) == [x EXCEPT !.trace = Append(@, <<"log", n>>)]

Did(x, what, arg) == [x EXCEPT !.trace = Append(@, <<what, arg>>)]

\* the invocation ends: return execution (pc "done") or an exception ("thrown")
Finish(x, pc) ==
    [x EXCEPT !.pc = pc, !.kpis = NoKpis, !.hoje = NoKpis, !.analise = "none"]

\* A fault <<t, c>>: the t-th websocket broadcast call of the stretch throws
\* (0: none does), and then the c-th broadcast call of the catch block throws.
NoFault == <<0, 0>>

Faults(n) == {<<t, c>> \in (1..n) \X (0..2) : TRUE}

\* catch (error) { execution = {success: false, error}; addToHistory;
\*                 broadcastLog; broadcast execution_error; return execution }
CatchBlock(e, x, h, c) ==
    LET h1 == addToHistory(h, ExecRecord(e, FALSE, NoKpis, "thrown"))
        x1 == Did(x, "record", 0)
    IN  CASE c = 0 -> [x |-> Finish(Did(Log(x1, 6), "execution_error", 0), "done"),
                       h |-> h1]
          [] c = 1 -> [x |-> Finish(x1, "thrown"), h |-> h1]
          [] c = 2 -> [x |-> Finish(Log(x1, 6), "thrown"), h |-> h1]

\* faulty variant: the terminal event is broadcast before the record is appended
RecordAndAnnounceEventFirst(e, x, h, f) ==
    LET success == x.result = "ok"
        error == IF success THEN "none" ELSE x.result
        x1 == Did(x, "send_end", 0)
        x2 == Did(Log(x1, IF success THEN 4 ELSE 5),
                  IF success THEN "execution_complete" ELSE "execution_error", 0)
    IN  [x |-> Finish(Did(x2, "record", 0), "done"),
         h |-> addToHistory(h, ExecRecord(e, success, x.kpis, error))]

\* faulty variant: a failed dispatch is recorded and announced as a success
RecordAndAnnounceAlwaysOk(e, x, h, f) ==
    LET x1 == Did(Did(x, "send_end", 0), "record", 0)
    IN  [x |-> Finish(Did(Log(x1, 4), "execution_complete", 0), "done"),
         h |-> addToHistory(h, ExecRecord(e, TRUE, x.kpis, "none"))]

\* executeReport after `await sendRelatorio(...)`: build the record,
\* addToHistory, broadcastLog, broadcast the terminal event, return
RecordAndAnnounce(e, x, h, f) ==
    LET success == x.result = "ok"
        error == IF success THEN "none" ELSE x.result
        h1 == addToHistory(h, ExecRecord(e, success, x.kpis, error))
        x1 == Did(Did(x, "send_end", 0), "record", 0)
        x2 == Log(x1, IF success THEN 4 ELSE 5)
        x3 == Did(x2, IF success THEN "execution_complete" ELSE "execution_error", 0)
    IN  CASE f[1] = 0 -> [x |-> Finish(x3, "done"), h |-> h1]
          [] f[1] = 1 -> CatchBlock(e, x1, h1, f[2])
          [] f[1] = 2 -> CatchBlock(e, x2, h1, f[2])

InFlightPcs == {"kpis", "analiseKpis", "analiseHist", "send", "delay", "sendAnalise"}

InFlight(e) == ex[e].pc \in InFlightPcs

\* faulty variant: an execution starts only when no other one is in flight (a lock)
CanStartLocked(e) ==
    /\ ex[e].pc = "idle"
    /\ \A d \in ExecIds : ~InFlight(d)

\* executeReport has no guard: invocation e starts as soon as the e-1 before
\* it have been started (invocations are numbered in invocation order)
CanStart(e) ==
    /\ ex[e].pc = "idle"
    /\ \A d \in ExecIds : d < e => ex[d].pc # "idle"

\* executeReport up to `await api55Service.calculateDayKPIs()`
StartStretch(e, origin, h, f) ==
    LET x0 == [IdleExec EXCEPT !.origin = origin]
    IN  IF f[1] = 0
        THEN [x |-> [Did(Log(x0, 1), "kpis_start", 0) EXCEPT !.pc = "kpis"], h |-> h]
        ELSE CatchBlock(e, x0, h, f[2])

\* calculateDayKPIs resolved with k; two broadcastLog calls; up to
\* `await api55Service.analisarDiaAtual()`, suspended in its calculateDayKPIs
KpisStretch(e, x, h, k, f) ==
    LET x1 == Did([x EXCEPT !.kpis = k], "kpis_end", k)
    IN  CASE f[1] = 0 -> [x |-> [Did(Log(Log(x1, 2), 3), "analise_start", 0)
                                    EXCEPT !.pc = "analiseKpis"],
                          h |-> h]
          [] f[1] = 1 -> CatchBlock(e, x1, h, f[2])
          [] f[1] = 2 -> CatchBlock(e, Log(x1, 2), h, f[2])

\* faulty variant: the second computation replaces the KPIs of the first
AnaliseKpisStretchOverwrites(e, x, h, k2, f) ==
    LET x1 == [x EXCEPT !.hoje = k2, !.kpis = k2]
    IN  IF f[1] = 0
        THEN [x |-> [Log(x1, 7) EXCEPT !.pc = "analiseHist"], h |-> h]
        ELSE CatchBlock(e, x1, h, f[2])

\* analisarDiaAtual: kpisHoje resolved with k2; fetchHistoricalData(15) starts
\* with `await sendLog(...)` and then fetches the 15 days one after another.
\* The day fetches touch no state of the scheduler: they are one suspension.
AnaliseKpisStretch(e, x, h, k2, f) ==
    LET x1 == [x EXCEPT !.hoje = k2]
    IN  IF f[1] = 0
        THEN [x |-> [Log(x1, 7) EXCEPT !.pc = "analiseHist"], h |-> h]
        ELSE CatchBlock(e, x1, h, f[2])

\* faulty variant: sendRelatorio posts the report without looking at the
\* configuration
AnaliseHistStretchPostsAnyway(e, x, h, hist, configured, f) ==
    LET x1 == [x EXCEPT !.analise = hist]
        x2 == Did(Did(Log(x1, 8), "analise_end", 0), "send_start", 0)
    IN  CASE f[1] = 1 -> CatchBlock(e, x1, h, f[2])
          [] OTHER -> [x |-> [x2 EXCEPT !.pc = "send"], h |-> h]

\* fetchHistoricalData resolved (hist is "null" or "ok"), its last sendLog,
\* analisarDiaAtual returns, executeReport calls sendRelatorio(kpis, analise):
\* not configured, it returns {success: false, error} at once and
\* executeReport goes on; configured, it is suspended in api.post
AnaliseHistStretch(e, x, h, hist, configured, f) ==
    LET x1 == [x EXCEPT !.analise = hist]
        x2 == Did(Did(Log(x1, 8), "analise_end", 0), "send_start", 0)
    IN  CASE f[1] = 1 -> CatchBlock(e, x1, h, f[2])
          [] ~configured ->
                RecordAndAnnounce(e, [x2 EXCEPT !.result = "notConfigured"], h,
                                  IF f[1] = 0 THEN f ELSE <<f[1] - 1, f[2]>>)
          [] OTHER -> [x |-> [x2 EXCEPT !.pc = "send"], h |-> h]

\* sendRelatorio: api.post of the report answered (ok) or failed;
\* with analise.analise it goes on to sendAnaliseHistorica's 2000 ms pause
SendStretch(e, x, h, ok, f) ==
    IF ~ok THEN RecordAndAnnounce(e, [x EXCEPT !.result = "axios",
                                               !.posts = Append(@, <<"relatorio", FALSE>>)],
                                  h, f)
    ELSE LET x1 == [x EXCEPT !.msgs = Append(@, <<"relatorio", x.kpis>>),
                             !.posts = Append(@, <<"relatorio", TRUE>>)]
         IN  IF x.analise = "ok"
             THEN [x |-> [x1 EXCEPT !.pc = "delay"], h |-> h]
             ELSE RecordAndAnnounce(e, [x1 EXCEPT !.result = "ok"], h, f)

\* sendAnaliseHistorica: the pause is over, sendMessage posts the message
DelayStretch(e, x, h) == [x |-> [x EXCEPT !.pc = "sendAnalise"], h |-> h]

\* faulty variant: a failed second message makes the dispatch a failure
SendAnaliseStretchStrict(e, x, h, ok, f) ==
    LET x1 == IF ok THEN [x EXCEPT !.msgs = Append(@, <<"analise", x.hoje>>)] ELSE x
        x2 == [x1 EXCEPT !.posts = Append(@, <<"analise", ok>>)]
    IN  RecordAndAnnounce(e, [x2 EXCEPT !.result = IF ok THEN "ok" ELSE "axios"], h, f)

\* sendMessage's api.post answered or failed; sendRelatorio ignores the
\* outcome and returns {success: true}
SendAnaliseStretch(e, x, h, ok, f) ==
    LET x1 == IF ok THEN [x EXCEPT !.msgs = Append(@, <<"analise", x.hoje>>)] ELSE x
        x2 == [x1 EXCEPT !.posts = Append(@, <<"analise", ok>>)]
    IN  RecordAndAnnounce(e, [x2 EXCEPT !.result = "ok"], h, f)

\* ------------------------------------------------------------------------
\* POST /api/trigger (routes.js)
\* ------------------------------------------------------------------------

\* the request has not been answered
NoResponse == [status |-> "none", success |-> FALSE]

\* res.json({success: true, message: 'Relatório sendo gerado...'})
TriggerAck == [status |-> "200", success |-> TRUE]

\* faulty variant: the handler awaits executeReport() and answers with its outcome
TriggerResponseAwaited(x) ==
    IF x.pc \in {"done", "thrown"}
    THEN [status |-> "200", success |-> x.result = "ok"]
    ELSE NoResponse

\* what the handler answers: executeReport() has returned its promise (x is
\* the invocation, suspended at its first await or already ended) and the
\* handler goes straight on to res.json
TriggerResponse(x) == TriggerAck

\* ------------------------------------------------------------------------
\* updateD0 (scheduler.js), the callback of jobs['d0_update']
\*
\*   pc      "idle" | "kpis" (await calculateDayKPIs())
\*   fired   how many times the job has fired
\*   events  what the last firing has broadcast, in order
\*   caught  the last firing ended in the catch block (console.error only)
\* calculateDayKPIs answers within the HTTP timeout of the metrics API, long
\* before the next hour: one refresh is in flight at a time.
\* ------------------------------------------------------------------------

IdleD0 == [pc |-> "idle", fired |-> 0, events |-> <<>>, caught |-> FALSE]

\* faulty variant: the refresh only writes the log line
updateD0NoEvent(x, k, t) ==
    [x EXCEPT !.pc = "idle", !.events = <<<<"log", 9>>>>]

\* calculateDayKPIs resolved with k: websocket.sendD0Update(kpis), then
\* websocket.broadcastLog(...).  t = 0: neither throws; t = 1, 2: the t-th
\* of the two throws, and the catch block swallows the exception.
updateD0(x, k, t) ==
    CASE t = 0 -> [x EXCEPT !.pc = "idle",
                            !.events = <<<<"d0_update", k>>, <<"log", 9>>>>]
      [] t = 1 -> [x EXCEPT !.pc = "idle", !.caught = TRUE]
      [] t = 2 -> [x EXCEPT !.pc = "idle", !.events = <<<<"d0_update", k>>>>,
                            !.caught = TRUE]

\* ------------------------------------------------------------------------
\* Day Cache (DB-Reports/service.js).  Instants are seconds since the local
\* midnight of day 0; the date of a file name is the number of the day.
\* A call is identified with the addCall invocation that adds it.
\* ------------------------------------------------------------------------

\* const DEFAULT_TTL = 90000 (25 hours)
DEFAULT_TTL == 90000

\* format(date, 'yyyy-MM-dd')
DateOf(t) == t \div DaySeconds

Dates == 0..MaxDay

AddIds == 1..MaxAdds

\* the instants the clock takes: midnight of day 0, the last second of day 0,
\* midnight of day 1, and 25 hours after each of them, to the second before
\* and after
ClockValues == {0, 86399, 86400, 90000, 90001, 176399, 176400, 176401}

\* a file operation (mkdir, readFile, writeFile, access, unlink) takes at
\* most this many seconds
OpSeconds == 1

\* no calls-<date>.json / no metadata-<date>.json
NoCallsFile == [exists |-> FALSE, calls |-> <<>>]

NoMetadataFile == [exists |-> FALSE, expiresAt |-> 0]

\* addCall before it is invoked
\*   pc         "idle" | "read" (await fs.readFile) | "write" (await
\*              fs.writeFile of the list) | "meta" (updateMetadata's await
\*              fs.writeFile) | "done"
\*   date       the date in filePath (getCallsFilePath(), read once)
\*   base       the list as JSON.parse(data) gave it ([] if the read failed)
\*   wroteAt    the instant fs.writeFile of the list resolved
\*   metaDate   the date in metadataPath (updateMetadata(new Date()))
\*   metadata   the object updateMetadata hands to fs.writeFile
\*   ret        what addCall returned
IdleAdd ==
    [pc |-> "idle", date |-> 0, base |-> <<>>, wroteAt |-> 0, metaDate |-> 0,
     metadata |-> NoMetadataFile, ret |-> FALSE]

\* no read access yet
\*   op     "none" | "hasCache" | "getTodayCalls" | "countTodayCalls" |
\*          "getCacheTTL"
\*   pc     "done", or where hasCache is suspended: "access" (fs.access),
\*          "readMeta" (fs.readFile), "unlinkFile", "unlinkMeta" (fs.unlink)
\*   since  the instant of the invocation
\*   found, calls, count, ttl   what the access returned (by operation)
IdleRead ==
    [op |-> "none", pc |-> "done", date |-> 0, since |-> 0, found |-> FALSE,
     calls |-> <<>>, count |-> 0, ttl |-> 0]

\* faulty variant: the call is put at the head of the list
addCallContentAtHead(base, current, call) == <<call>> \o base

\* faulty variant: the list is read again when it is written
addCallContentMerged(base, current, call) == Append(current, call)

\* calls.push({...callData, timestamp}): the list addCall writes is the list
\* it read (base) with the call added, whatever the file holds by now (current)
addCallContent(base, current, call) == Append(base, call)

\* updateMetadata: expiresAt = new Date(Date.now() + DEFAULT_TTL * 1000)
updateMetadata(t) == [exists |-> TRUE, expiresAt |-> t + DEFAULT_TTL]

\* getTodayCalls: the list of the file, [] when it cannot be read
getTodayCalls(f) == IF f.exists THEN f.calls ELSE <<>>

\* countTodayCalls: (await getTodayCalls(date)).length
countTodayCalls(f) == Len(getTodayCalls(f))

\* getCacheTTL: Math.floor((expiresAt - now) / 1000), -1 if not positive or
\* if the metadata cannot be read
getCacheTTL(m, t) ==
    IF ~m.exists THEN -1
    ELSE LET diff == m.expiresAt - t IN IF diff > 0 THEN diff ELSE -1

\* hasCache: if (expiresAt < new Date())
HasExpired(m, t) == m.expiresAt < t

\* the Day Cache of a fresh installation
EmptyCache ==
    /\ clock = 0
    /\ callsFile = [d \in Dates |-> NoCallsFile]
    /\ metadataFile = [d \in Dates |-> NoMetadataFile]
    /\ adds = [a \in AddIds |-> IdleAdd]
    /\ rd = IdleRead
    /\ written = [d \in Dates |-> -1]

\* ------------------------------------------------------------------------
\* sendRelatorio(kpis, analise) called on its own (API-WHATSAPP/service.js)
\*
\*   pc       "idle" | "post" (await api.post of the report) | "delay"
\*            (sendAnaliseHistorica's 2000 ms pause) | "postAnalise"
\*            (sendMessage's await api.post) | "returned"
\*   calls    how many times sendRelatorio has been called
\*   kpis     the argument kpis (kpis.totalCalls)
\*   analise  the argument analise: "absent" (null, the default), "null"
\*            (an object whose analise is null), "ok" (classifications)
\*   posts    the api.post calls of this call: <<kind, answered>>
\*   delayed  the 2000 ms pause of this call is over
\*   ret      what sendRelatorio returned
\* ------------------------------------------------------------------------

AnaliseArgs == {"absent", "null", "ok"}

NoReturn == [success |-> FALSE, error |-> "pending"]

IdleWa ==
    [pc |-> "idle", calls |-> 0, kpis |-> NoKpis, analise |-> "absent",
     posts |-> <<>>, delayed |-> FALSE, ret |-> NoReturn]

\* sendRelatorio up to `await api.post(...)`; not configured, it returns at once
sendRelatorio(w, k, analise, configured) ==
    LET w1 == [IdleWa EXCEPT !.calls = w.calls + 1, !.kpis = k, !.analise = analise]
    IN  IF configured
        THEN [w1 EXCEPT !.pc = "post"]
        ELSE [w1 EXCEPT !.pc = "returned",
                        !.ret = [success |-> FALSE, error |-> "notConfigured"]]

\* faulty variant: the comparison message is sent whatever analise is
sendRelatorioAlwaysCompares(w, ok) ==
    LET w1 == [w EXCEPT !.posts = Append(@, <<"relatorio", ok>>)]
    IN  IF ~ok
        THEN [w1 EXCEPT !.pc = "returned",
                        !.ret = [success |-> FALSE, error |-> "axios"]]
        ELSE [w1 EXCEPT !.pc = "delay"]

\* faulty variant: a failed report is posted once more
sendRelatorioRetries(w, ok) ==
    LET w1 == [w EXCEPT !.posts = Append(@, <<"relatorio", ok>>)]
    IN  IF ~ok
        THEN IF Len(w.posts) = 0 THEN w1
             ELSE [w1 EXCEPT !.pc = "returned",
                             !.ret = [success |-> FALSE, error |-> "axios"]]
        ELSE IF w.analise = "ok"
             THEN [w1 EXCEPT !.pc = "delay"]
             ELSE [w1 EXCEPT !.pc = "returned",
                             !.ret = [success |-> TRUE, error |-> "none"]]

\* api.post of the report rejected: catch, return {success: false, error};
\* or resolved: if (analise && analise.analise) sendAnaliseHistorica starts
\* its pause, else return {success: true, data}
sendRelatorioPosted(w, ok) ==
    LET w1 == [w EXCEPT !.posts = Append(@, <<"relatorio", ok>>)]
    IN  IF ~ok
        THEN [w1 EXCEPT !.pc = "returned",
                        !.ret = [success |-> FALSE, error |-> "axios"]]
        ELSE IF w.analise = "ok"
             THEN [w1 EXCEPT !.pc = "delay"]
             ELSE [w1 EXCEPT !.pc = "returned",
                             !.ret = [success |-> TRUE, error |-> "none"]]

\* sendAnaliseHistorica: the pause is over; sendMessage calls api.post
sendAnaliseHistorica(w) == [w EXCEPT !.pc = "postAnalise", !.delayed = TRUE]

\* sendMessage's api.post settled; sendAnaliseHistorica returns its result,
\* which sendRelatorio does not look at: return {success: true, data}
sendMessage(w, ok) ==
    [w EXCEPT !.posts = Append(@, <<"analise", ok>>), !.pc = "returned",
              !.ret = [success |-> TRUE, error |-> "none"]]

\* ------------------------------------------------------------------------
\* The websocket broadcaster (websocket.js)
\*
\* A connection is "NONE" before it is made, then "OPEN", "CLOSING",
\* "CLOSED" (ws.readyState).  The events of the broadcast calls are numbered
\* 1, 2, ...; 0 is the greeting sent to a new connection.
\* ------------------------------------------------------------------------

Viewers == 1..MaxViewers

\* the greeting of wss.on('connection')
Greeting == 0

NoViewers ==
    /\ clients = <<>>
    /\ readyState = [v \in Viewers |-> "NONE"]
    /\ inbox = [v \in Viewers |-> <<>>]
    /\ published = 0
    /\ rejected = 0
    /\ publishers = <<>>
    /\ clientCount = -1

\* clients.delete(ws)
\* faulty variant: the connection stays in the set
DeleteClientKeeps(cs, v) == cs

DeleteClient(cs, v) == SelectSeq(cs, LAMBDA c : c # v)

\* getClientCount(): clients.size
getClientCount(cs) == Len(cs)

\* faulty variant: the message is put in front of what the connection was
\* sent before
SendAhead(r, v, rs, message) ==
    IF rs[v] = "OPEN"
    THEN [r EXCEPT !.inbox[v] = <<message>> \o @]
    ELSE [r EXCEPT !.rejected = @ + 1]

\* client.send(message): the library takes the message of an open
\* connection and rejects a send on any other
Send(r, v, rs, message) ==
    IF rs[v] = "OPEN"
    THEN [r EXCEPT !.inbox[v] = Append(@, message)]
    ELSE [r EXCEPT !.rejected = @ + 1]

\* faulty variant: the loop ends at the first connection that is not open
RECURSIVE broadcastStopsAtClosed(_, _, _, _, _)
broadcastStopsAtClosed(r, cs, rs, message, i) ==
    IF i > Len(cs) \/ rs[cs[i]] # "OPEN" THEN r
    ELSE broadcastStopsAtClosed(Send(r, cs[i], rs, message), cs, rs, message, i + 1)

\* clients.forEach(client => { if (client.readyState === client.OPEN)
\*                               client.send(message) })
RECURSIVE broadcast(_, _, _, _, _)
broadcast(r, cs, rs, message, i) ==
    IF i > Len(cs) THEN r
    ELSE broadcast(IF rs[cs[i]] = "OPEN" THEN Send(r, cs[i], rs, message) ELSE r,
                   cs, rs, message, i + 1)

\* ------------------------------------------------------------------------
\* The metrics service (API-55PBX/service.js)
\*
\* A value of a JSON body is a record [type, s, n]: undefined (the field is
\* absent), a boolean (n = 1 for true), a number (n, an integer, or NaN) or
\* a string (s, the sequence of its characters).
\* ------------------------------------------------------------------------

Undef == [type |-> "undefined", s |-> <<>>, n |-> 0]

Bool(b) == [type |-> "boolean", s |-> <<>>, n |-> IF b THEN 1 ELSE 0]

Num(n) == [type |-> "number", s |-> <<>>, n |-> n]

NaN == [type |-> "NaN", s |-> <<>>, n |-> 0]

Str(s) == [type |-> "string", s |-> s, n |-> 0]

\* ToBoolean: undefined, false, 0, NaN and '' are falsy
Truthy(v) ==
    CASE v.type = "undefined" -> FALSE
      [] v.type = "NaN"       -> FALSE
      [] v.type = "string"    -> v.s # <<>>
      [] OTHER                -> v.n # 0

\* a || b
Or(a, b) == IF Truthy(a) THEN a ELSE b

\* parseInt(v): a number stays (the model has integers only), a string gives
\* the integer its leading digits spell and NaN when it starts with none;
\* true, false and undefined give NaN
parseInt(v) ==
    LET Digits == <<"0", "1", "2", "3", "4", "5", "6", "7", "8", "9">>
        IsDigit(c) == \E d \in DOMAIN Digits : Digits[d] = c
        DigitValue(c) == (CHOOSE d \in DOMAIN Digits : Digits[d] = c) - 1
        \* the length of the longest prefix of v.s made of digits
        k == CHOOSE m \in 0..Len(v.s) :
                /\ \A i \in 1..m : IsDigit(v.s[i])
                /\ m < Len(v.s) => ~IsDigit(v.s[m + 1])
        RECURSIVE Value(_)
        Value(m) == IF m = 0 THEN 0 ELSE 10 * Value(m - 1) + DigitValue(v.s[m])
    IN  CASE v.type = "number" -> v
          [] v.type = "string" -> IF k = 0 THEN NaN ELSE Num(Value(k))
          [] OTHER -> NaN

\* a + b on numbers
Plus(a, b) == IF a.type = "NaN" \/ b.type = "NaN" THEN NaN ELSE Num(a.n + b.n)

\* Math.round(a / b) for a >= 0 and b > 0
Round(a, b) == (2 * a + b) \div (2 * b)

\* s.toUpperCase()
toUpperCase(s) ==
    LET Lower == <<"a", "b", "c", "d", "e", "f", "g", "h", "i", "j", "k", "l", "m",
                   "n", "o", "p", "q", "r", "s", "t", "u", "v", "w", "x", "y", "z">>
        Upper == <<"A", "B", "C", "D", "E", "F", "G", "H", "I", "J", "K", "L", "M",
                   "N", "O", "P", "Q", "R", "S", "T", "U", "V", "W", "X", "Y", "Z">>
    IN  [i \in DOMAIN s |->
            IF \E k \in DOMAIN Lower : Lower[k] = s[i]
            THEN Upper[CHOOSE k \in DOMAIN Lower : Lower[k] = s[i]]
            ELSE s[i]]

\* markers.some(m => s.includes(m))
includes(s, markers) ==
    \E m \in markers :
        \E k \in 0..(Len(s) - Len(m)) : \A i \in DOMAIN m : s[k + i] = m[i]

\* 'ANSWERED', 'ATENDIDA'
AnsweredMarkers ==
    {<<"A", "N", "S", "W", "E", "R", "E", "D">>, <<"A", "T", "E", "N", "D", "I", "D", "A">>}

\* 'ABANDONED', 'ABANDONADA', 'NO ANSWER'
AbandonedMarkers ==
    {<<"A", "B", "A", "N", "D", "O", "N", "E", "D">>,
     <<"A", "B", "A", "N", "D", "O", "N", "A", "D", "A">>,
     <<"N", "O", " ", "A", "N", "S", "W", "E", "R">>}

\* 'URA', 'IVR'
IvrMarkers == {<<"U", "R", "A">>, <<"I", "V", "R">>}

\* the exception of calling toUpperCase on a value that is not a string
TypeError == "TypeError"

\* faulty variant: the abandoned-markers are tried before the answered ones
classifyCallStatusAbandonedFirst(callData) ==
    LET status == Or(Or(callData.call_status, callData.status), Str(<<>>))
        queue == Or(Or(callData.call_queue, callData.queue), Str(<<>>))
        answered == Or(callData.answered, callData.atendida)
        text == toUpperCase(status.s)
    IN  IF status.type # "string" THEN TypeError
        ELSE IF answered \in {Bool(TRUE), Num(1), Str(<<"1">>)} THEN "answered"
        ELSE IF includes(text, AbandonedMarkers) THEN "abandoned"
        ELSE IF includes(text, AnsweredMarkers) THEN "answered"
        ELSE IF includes(text, IvrMarkers) \/ ~Truthy(queue) THEN "retained_ura"
        ELSE "other"

\* classifyCallStatus(callData): the status is upper-cased first (line 188),
\* which throws when the value is neither absent, falsy nor a string
classifyCallStatus(callData) ==
    LET status == Or(Or(callData.call_status, callData.status), Str(<<>>))
        queue == Or(Or(callData.call_queue, callData.queue), Str(<<>>))
        answered == Or(callData.answered, callData.atendida)
        text == toUpperCase(status.s)
    IN  IF status.type # "string" THEN TypeError
        ELSE IF answered \in {Bool(TRUE), Num(1), Str(<<"1">>)} THEN "answered"
        ELSE IF includes(text, AnsweredMarkers) THEN "answered"
        ELSE IF includes(text, AbandonedMarkers) THEN "abandoned"
        ELSE IF includes(text, IvrMarkers) \/ ~Truthy(queue) THEN "retained_ura"
        ELSE "other"

\* an object of a body: the fields of the aggregate that are read (an
\* object without them, such as an error message, has them all absent)
Object(attended, abandonedQueue, abandonedURA, waiting) ==
    [totalCallAttendedReceptive |-> attended, totalCallAbandonedQueue |-> abandonedQueue,
     totalCallAbandonedURA |-> abandonedURA, timeMediumWaitingAttendance |-> waiting]

\* response.data: a falsy body ("null"), a list of calls or an object
Data(kind, calls, object) == [kind |-> kind, calls |-> calls, object |-> object]

\* what fetchTodayCalls returns when it has no data, and a falsy body
NullData == Data("null", <<>>, Object(Undef, Undef, Undef, Undef))

\* fetchTodayCalls(): null when the service is not configured, when api.get
\* throws (no response, or a status >= 500: validateStatus), when the status
\* is >= 400, and when the body is falsy; the body otherwise
fetchTodayCalls(configured, response) ==
    IF ~configured THEN NullData
    ELSE IF response.status = 0 \/ response.status >= 500 THEN NullData
    ELSE IF response.status >= 400 THEN NullData
    ELSE response.data

\* faulty variant: the zeroed KPIs have no totalCalls
ZeroKpisNoTotal(error) ==
    [totalCalls |-> NaN, answered |-> Num(0), abandoned |-> Num(0),
     retainedURA |-> Num(0), other |-> Num(0), peakHour |-> <<>>,
     avgWaitTime |-> Num(0), error |-> error]

\* the zeroed KPIs of lines 227-236 and, with error, of lines 349-359
ZeroKpis(error) ==
    [totalCalls |-> Num(0), answered |-> Num(0), abandoned |-> Num(0),
     retainedURA |-> Num(0), other |-> Num(0), peakHour |-> <<>>,
     avgWaitTime |-> Num(0), error |-> error]

\* faulty variant: the minutes of the waiting time are added as seconds
waitSecondsMinutesAsSeconds(waitTimeStr) ==
    LET colons == {i \in DOMAIN waitTimeStr.s : waitTimeStr.s[i] = ":"}
        c1 == CHOOSE i \in colons : \A j \in colons : i <= j
        c2 == CHOOSE i \in colons : \A j \in colons : j <= i
        part(a, b) == parseInt(Str(SubSeq(waitTimeStr.s, a, b)))
        h == part(1, c1 - 1)
        m == part(c1 + 1, c2 - 1)
        sec == part(c2 + 1, Len(waitTimeStr.s))
    IN  IF Cardinality(colons) # 2 THEN Num(0)
        ELSE IF NaN \in {h, m, sec} THEN NaN
        ELSE Num(h.n * 3600 + m.n + sec.n)

\* waitParts = waitTimeStr.split(':'); if (waitParts.length === 3)
\*     avgWaitTime = parseInt(waitParts[0]) * 3600 + parseInt(waitParts[1]) * 60
\*                   + parseInt(waitParts[2]);  0 otherwise
waitSeconds(waitTimeStr) ==
    LET colons == {i \in DOMAIN waitTimeStr.s : waitTimeStr.s[i] = ":"}
        c1 == CHOOSE i \in colons : \A j \in colons : i <= j
        c2 == CHOOSE i \in colons : \A j \in colons : j <= i
        part(a, b) == parseInt(Str(SubSeq(waitTimeStr.s, a, b)))
        h == part(1, c1 - 1)
        m == part(c1 + 1, c2 - 1)
        sec == part(c2 + 1, Len(waitTimeStr.s))
    IN  IF Cardinality(colons) # 2 THEN Num(0)
        ELSE IF NaN \in {h, m, sec} THEN NaN
        ELSE Num(h.n * 3600 + m.n * 60 + sec.n)

\* calculateDayKPIs on an aggregate (lines 240-275).  waitTimeStr.split(':')
\* throws when the field is truthy and not a string: the catch block of
\* calculateDayKPIs returns the zeroed KPIs with the error.
aggregateKPIs(data) ==
    LET atendidas == parseInt(Or(data.totalCallAttendedReceptive, Num(0)))
        abandonadas == parseInt(Or(data.totalCallAbandonedQueue, Num(0)))
        retidasURA == parseInt(Or(data.totalCallAbandonedURA, Num(0)))
        waitTimeStr == Or(data.timeMediumWaitingAttendance,
                          Str(<<"0", "0", ":", "0", "0", ":", "0", "0">>))
    IN  IF waitTimeStr.type # "string" THEN ZeroKpis(TRUE)
        ELSE [totalCalls |-> Plus(Plus(atendidas, abandonadas), retidasURA),
              answered |-> atendidas, abandoned |-> abandonadas,
              retainedURA |-> retidasURA, other |-> Num(0), peakHour |-> <<>>,
              avgWaitTime |-> waitSeconds(waitTimeStr), error |-> FALSE]

\* `${String(new Date(call.call_date).getHours()).padStart(2, '0')}:00`;
\* the hour of an Invalid Date is NaN
hourOf(call) ==
    LET Digits == <<"0", "1", "2", "3", "4", "5", "6", "7", "8", "9">>
        hour == call.call_date.n % 24
    IN  IF call.call_date.type = "number"
        THEN <<Digits[(hour \div 10) + 1], Digits[(hour % 10) + 1], ":", "0", "0">>
        ELSE <<"N", "a", "N", ":", "0", "0">>

\* hourCounts[hour] = (hourCounts[hour] || 0) + 1 for calls[i..]: the
\* entries <<hour, count>> of hourCounts, in the order in which the hours
\* were inserted (Object.entries keeps it: no label is an integer index)
RECURSIVE countHours(_, _, _)
countHours(calls, i, hourCounts) ==
    IF i > Len(calls) THEN hourCounts
    ELSE LET hour == hourOf(calls[i])
         IN  countHours(calls, i + 1,
                IF \E k \in DOMAIN hourCounts : hourCounts[k][1] = hour
                THEN [k \in DOMAIN hourCounts |->
                        IF hourCounts[k][1] = hour
                        THEN <<hour, hourCounts[k][2] + 1>> ELSE hourCounts[k]]
                ELSE Append(hourCounts, <<hour, 1>>))

\* faulty variant: a later hour with the same count replaces the peak
RECURSIVE findPeakHourLastWins(_, _, _)
findPeakHourLastWins(hourCounts, i, peak) ==
    IF i > Len(hourCounts) THEN peak
    ELSE findPeakHourLastWins(hourCounts, i + 1,
            IF peak = <<>> \/ hourCounts[i][2] >= peak[2] THEN hourCounts[i] ELSE peak)

\* Object.entries(hourCounts).forEach(([hour, count]) =>
\*     { if (count > peakCount) { peakCount = count; peakHour = hour } })
RECURSIVE findPeakHour(_, _, _)
findPeakHour(hourCounts, i, peak) ==
    IF i > Len(hourCounts) THEN peak
    ELSE findPeakHour(hourCounts, i + 1,
            IF hourCounts[i][2] > (IF peak = <<>> THEN 0 ELSE peak[2])
            THEN hourCounts[i] ELSE peak)

\* faulty variant: `case 'answered'` has no break and falls through to
\* `case 'abandoned'`
countCallsFallThrough(classification) ==
    LET count(cs) == Num(Cardinality({i \in DOMAIN classification : classification[i] \in cs}))
    IN  [answered |-> count({"answered"}), abandoned |-> count({"answered", "abandoned"}),
         retainedURA |-> count({"retained_ura"}),
         other |-> count({"other"})]

\* switch (classification) { case 'answered': answered++; break; ...
\*                           default: other++ } over the calls
countCalls(classification) ==
    LET count(cs) == Num(Cardinality({i \in DOMAIN classification : classification[i] \in cs}))
    IN  [answered |-> count({"answered"}), abandoned |-> count({"abandoned"}),
         retainedURA |-> count({"retained_ura"}),
         other |-> count({"other"})]

\* calculateDayKPIs on a list of calls (lines 278-343); an exception of
\* classifyCallStatus leaves the forEach and is caught at line 345
listKPIs(calls) ==
    LET classification == [i \in DOMAIN calls |-> classifyCallStatus(calls[i])]
        counts == countCalls(classification)
        waitTime(i) == parseInt(Or(calls[i].call_time_waiting, Num(0)))
        RECURSIVE totalWaitTime(_)
        totalWaitTime(i) ==
            IF i = 0 THEN Num(0) ELSE Plus(totalWaitTime(i - 1), waitTime(i))
        total == totalWaitTime(Len(calls))
    IN  IF \E i \in DOMAIN calls : classification[i] = TypeError THEN ZeroKpis(TRUE)
        ELSE [totalCalls |-> Num(Len(calls)),
              answered |-> counts.answered, abandoned |-> counts.abandoned,
              retainedURA |-> counts.retainedURA, other |-> counts.other,
              peakHour |-> findPeakHour(countHours(calls, 1, <<>>), 1, <<>>),
              avgWaitTime |-> IF total = NaN THEN NaN
                              ELSE Num(Round(total.n, Len(calls))),
              error |-> FALSE]

\* calculateDayKPIs() once fetchTodayCalls has resolved with data
calculateDayKPIs(data) ==
    IF data.kind = "null" \/ (data.kind = "list" /\ data.calls = <<>>) THEN ZeroKpis(FALSE)
    ELSE IF data.kind = "object" THEN aggregateKPIs(data.object)
    ELSE listKPIs(data.calls)

\* ------------------------------------------------------------------------
\* What the metrics API may answer
\* ------------------------------------------------------------------------

\* values of call_status: absent, '', 'answered', 'NO ANSWER', 'NO ANSWERED',
\* 'Abandoned ivr', 'ura' and 'busy' (the API is taken to send a status as
\* text: toUpperCase throws on any other truthy value)
StatusValues ==
    {Undef, Str(<<>>), Str(<<"a", "n", "s", "w", "e", "r", "e", "d">>),
     Str(<<"N", "O", " ", "A", "N", "S", "W", "E", "R">>),
     Str(<<"N", "O", " ", "A", "N", "S", "W", "E", "R", "E", "D">>),
     Str(<<"A", "b", "a", "n", "d", "o", "n", "e", "d", " ", "i", "v", "r">>),
     Str(<<"u", "r", "a">>), Str(<<"b", "u", "s", "y">>)}

\* the calls a list of one call is made of: every combination of the fields
\* that classifyCallStatus reads
Calls ==
    [call_status : StatusValues,
     status : {Undef, Str(<<"A", "T", "E", "N", "D", "I", "D", "A">>)},
     call_queue : {Undef, Str(<<"q", "1">>)},
     queue : {Undef},
     answered : {Undef, Bool(TRUE), Bool(FALSE), Num(1), Str(<<"1">>), Str(<<"0">>)},
     atendida : {Undef},
     call_time_waiting : {Num(7)},
     call_date : {Num(9)}]

\* the calls longer lists are made of: one call of every category, at two
\* hours or with no date
FewCalls ==
    [call_status : {Str(<<"a", "n", "s", "w", "e", "r", "e", "d">>),
                    Str(<<"N", "O", " ", "A", "N", "S", "W", "E", "R">>),
                    Str(<<"u", "r", "a">>), Str(<<"b", "u", "s", "y">>)},
     status : {Undef},
     call_queue : {Str(<<"q", "1">>)},
     queue : {Undef},
     answered : {Undef},
     atendida : {Undef},
     call_time_waiting : {Undef},
     call_date : {Undef, Num(9), Num(10)}]

\* values of a counter of the aggregate: absent, 0, 2, '3' and '12' (the
\* API is taken to send a count as a number or in decimal digits: parseInt
\* gives NaN for any other text)
CounterValues == {Undef, Num(0), Num(2), Str(<<"3">>), Str(<<"1", "2">>)}

\* values of timeMediumWaitingAttendance: absent, '01:02:03', '00:00:06'
\* and '00:07'
WaitValues ==
    {Undef, Str(<<"0", "1", ":", "0", "2", ":", "0", "3">>),
     Str(<<"0", "0", ":", "0", "0", ":", "0", "6">>),
     Str(<<"0", "0", ":", "0", "7">>)}

\* the bodies of a 2xx answer
Bodies ==
    {NullData}
    \cup {Data("list", <<c>>, NullData.object) : c \in Calls}
    \cup {Data("list", calls, NullData.object) :
            calls \in UNION {[1..n -> FewCalls] : n \in 0..MaxCalls}}
    \cup {Data("object", <<>>, Object(a, b, c, w)) :
            a \in CounterValues, b \in CounterValues, c \in CounterValues,
            w \in WaitValues}

\* what api.get meets: no answer (status 0: transport error or timeout), or
\* an answer with its status; an answer that is not 2xx carries a falsy
\* body or an object that describes the error
Responses ==
    [status : {200}, data : Bodies]
    \cup [status : {0, 404, 417, 500},
          data : {NullData, Data("object", <<>>, NullData.object)}]

\* ------------------------------------------------------------------------
\* calculateDayKPIs called on its own
\*   pc          "idle" | "fetch" (await fetchTodayCalls()) | "returned"
\*   configured  isConfigured() at the call
\*   response    what api.get met
\*   ret         the KPIs returned
\* ------------------------------------------------------------------------

IdleKp == [pc |-> "idle", configured |-> TRUE, response |-> [status |-> 0, data |-> NullData],
           ret |-> ZeroKpis(FALSE)]

\* ------------------------------------------------------------------------
\* fetchHistoricalData(days) called on its own.  A date is the number of its
\* day, counted from the day of the call (day 0).  null is the empty
\* sequence, an object that is returned a sequence of one element.
\*   pc          "idle" | "log" (await sendLog) | "fetch" (await
\*               fetchDayData(data)) | "pause" (the 300 ms timer) |
\*               "logEnd" (the last await sendLog) | "returned"
\*   days, i     the argument and the loop variable
\*   configured  isConfigured() during the call
\*   trace       the calls of fetchDayData, their ends and the ends of the
\*               pauses, in order: <<what, i, date>>
\*   answers     what api.get met for each day, in order
\*   historico   const historico
\*   ret         what the call returned
\* ------------------------------------------------------------------------

IdleHs == [pc |-> "idle", days |-> 0, i |-> 0, configured |-> TRUE, trace |-> <<>>,
           answers |-> <<>>, historico |-> <<>>, ret |-> <<>>]

\* what api.get meets for one day: no answer (status 0), or an answer with
\* its status; the body of a 2xx answer is falsy or the aggregate of the
\* day, the body of another answer is falsy or an object describing the error
DayResponses ==
    [status : {200},
     data : {NullData,
             Data("object", <<>>, Object(Num(10), Undef, Undef, Undef)),
             Data("object", <<>>, Object(Str(<<"1", "5">>), Num(5), Num(0), Undef))}]
    \cup [status : {0, 404, 417, 500},
          data : {NullData, Data("object", <<>>, NullData.object)}]

\* subDays(hoje, i)
subDays(hoje, i) == hoje - i

\* fetchDayData(date): null when the service is not configured, when
\* api.get throws (no answer, or a status >= 500: validateStatus) and when
\* the body is falsy; the record of the day otherwise.  The status of an
\* answer that api.get resolves with is not looked at.
fetchDayData(configured, date, response) ==
    IF ~configured THEN <<>>
    ELSE IF response.status = 0 \/ response.status >= 500 THEN <<>>
    ELSE IF response.data.kind = "null" THEN <<>>
    ELSE LET data == response.data.object
             atendidas == parseInt(Or(data.totalCallAttendedReceptive, Num(0)))
             abandonadas == parseInt(Or(data.totalCallAbandonedQueue, Num(0)))
             retidasURA == parseInt(Or(data.totalCallAbandonedURA, Num(0)))
         IN  <<[date |-> date, atendidas |-> atendidas, abandonadas |-> abandonadas,
                retidasURA |-> retidasURA,
                total |-> Plus(Plus(atendidas, abandonadas), retidasURA)]>>

\* historico.reduce((sum, d) => sum + d[field], 0)
RECURSIVE reduce(_, _, _)
reduce(historico, field, i) ==
    IF i = 0 THEN Num(0) ELSE Plus(reduce(historico, field, i - 1), historico[i][field])

\* faulty variant: the means are cut to an integer, not rounded
historyOfTruncates(historico) ==
    LET media(field) == Num(reduce(historico, field, Len(historico)).n \div Len(historico))
    IN  IF historico = <<>> THEN <<>>
        ELSE <<[dias |-> Len(historico), historico |-> historico,
                medias |-> [atendidas |-> media("atendidas"),
                            abandonadas |-> media("abandonadas"),
                            retidasURA |-> media("retidasURA"),
                            total |-> media("total")]]>>

\* lines 481-511: null for an empty historico, {dias, historico, medias}
\* otherwise
historyOf(historico) ==
    LET media(field) == Num(Round(reduce(historico, field, Len(historico)).n, Len(historico)))
    IN  IF historico = <<>> THEN <<>>
        ELSE <<[dias |-> Len(historico), historico |-> historico,
                medias |-> [atendidas |-> media("atendidas"),
                            abandonadas |-> media("abandonadas"),
                            retidasURA |-> media("retidasURA"),
                            total |-> media("total")]]>>

\* the call of fetchDayData for day i of the loop
fetchDay(h, i) ==
    [h EXCEPT !.pc = "fetch", !.i = i,
              !.trace = Append(@, <<"fetchDayData", i, subDays(0, i)>>)]

\* faulty variant: the loop ends at the first day that gave nothing
dayFetchedStopsAtNull(h, response) ==
    LET dadosDia == fetchDayData(h.configured, subDays(0, h.i), response)
    IN  [h EXCEPT !.pc = IF dadosDia = <<>> THEN "logEnd" ELSE "pause",
                  !.answers = Append(@, response),
                  !.trace = Append(@, <<"resolved", h.i, subDays(0, h.i)>>),
                  !.historico = @ \o dadosDia]

\* fetchDayData has resolved: if (dadosDia) historico.push(dadosDia); then
\* the pause of 300 ms
dayFetched(h, response) ==
    LET dadosDia == fetchDayData(h.configured, subDays(0, h.i), response)
    IN  [h EXCEPT !.pc = "pause",
                  !.answers = Append(@, response),
                  !.trace = Append(@, <<"resolved", h.i, subDays(0, h.i)>>),
                  !.historico = @ \o dadosDia]

\* the pause is over: i++, the next day or the end of the loop, where both
\* branches start with `await sendLog(...)`
paused(h) ==
    LET t == [h EXCEPT !.trace = Append(@, <<"paused", h.i, subDays(0, h.i)>>)]
    IN  IF h.i + 1 <= h.days THEN fetchDay(t, h.i + 1) ELSE [t EXCEPT !.pc = "logEnd"]

\* ------------------------------------------------------------------------
\* classificarNivel(valorAtual, media) called on its own
\* ------------------------------------------------------------------------

IdleLv == [pc |-> "idle", valorAtual |-> 0, media |-> 0,
           ret |-> [nivel |-> "indefinido", percentual |-> 0]]

\* faulty variant: a percentual of 100 is still 'Médio'
classificarNivelHundredIsMedio(valorAtual, media, up) ==
    LET half == (200 * valorAtual) % (2 * media) = media
        percentual == IF half /\ ~up THEN (100 * valorAtual) \div media
                      ELSE Round(100 * valorAtual, media)
    IN  IF media = 0 THEN [nivel |-> "indefinido", percentual |-> 0]
        ELSE IF percentual < 70 THEN [nivel |-> "Abaixo do comum", percentual |-> percentual]
        ELSE IF percentual <= 100 THEN [nivel |-> "Médio", percentual |-> percentual]
        ELSE IF percentual < 130 THEN [nivel |-> "Alto", percentual |-> percentual]
        ELSE [nivel |-> "Altíssimo", percentual |-> percentual]

\* classificarNivel(valorAtual, media) for integers that are not negative.
\* percentual = Math.round((valorAtual / media) * 100) is computed in
\* doubles: when the exact value ends in .5 the product may fall just below
\* it (23 / 40 * 100 is 57.49999999999999) and is then rounded down; up
\* says on which side it falls.
classificarNivel(valorAtual, media, up) ==
    LET half == (200 * valorAtual) % (2 * media) = media
        percentual == IF half /\ ~up THEN (100 * valorAtual) \div media
                      ELSE Round(100 * valorAtual, media)
    IN  IF media = 0 THEN [nivel |-> "indefinido", percentual |-> 0]
        ELSE IF percentual < 70 THEN [nivel |-> "Abaixo do comum", percentual |-> percentual]
        ELSE IF percentual < 100 THEN [nivel |-> "Médio", percentual |-> percentual]
        ELSE IF percentual < 130 THEN [nivel |-> "Alto", percentual |-> percentual]
        ELSE [nivel |-> "Altíssimo", percentual |-> percentual]

\* ------------------------------------------------------------------------
\* analisarDiaAtual() called on its own
\*   pc    "idle" | "kpis" (await calculateDayKPIs()) | "historico" (await
\*         fetchHistoricalData(15)) | "returned"
\*   ret   the object returned; a property that is absent or null is the
\*         empty sequence.  resumo is held as the fields of analise.total
\*         that the text is built from.
\* ------------------------------------------------------------------------

IdleAn ==
    [pc |-> "idle",
     ret |-> [hoje |-> ZeroKpis(FALSE), historico |-> <<>>, analise |-> <<>>,
              erro |-> <<>>, resumo |-> <<>>]]

\* faulty variant: every metric is classified against the mean of the total
analisarDiaAtualAgainstTotal(kpisHoje, historico, up) ==
    IF historico = <<>>
    THEN [hoje |-> kpisHoje, historico |-> <<>>, analise |-> <<>>,
          erro |-> <<"Sem dados históricos para comparação">>, resumo |-> <<>>]
    ELSE LET medias == historico[1].medias
             analise ==
                 [atendidas |-> classificarNivel(kpisHoje.answered.n, medias.total.n,
                                                 up.atendidas),
                  abandonadas |-> classificarNivel(kpisHoje.abandoned.n, medias.total.n,
                                                   up.abandonadas),
                  retidasURA |-> classificarNivel(kpisHoje.retainedURA.n, medias.total.n,
                                                  up.retidasURA),
                  total |-> classificarNivel(kpisHoje.totalCalls.n, medias.total.n,
                                             up.total)]
         IN  [hoje |-> kpisHoje, historico |-> historico, analise |-> <<analise>>,
              erro |-> <<>>, resumo |-> <<analise.total>>]

\* analisarDiaAtual after its two awaits (lines 571-597): kpisHoje is what
\* calculateDayKPIs returned, historico what fetchHistoricalData returned;
\* up gives, for every metric, the side a percentual ending in .5 falls on
analisarDiaAtual(kpisHoje, historico, up) ==
    IF historico = <<>>
    THEN [hoje |-> kpisHoje, historico |-> <<>>, analise |-> <<>>,
          erro |-> <<"Sem dados históricos para comparação">>, resumo |-> <<>>]
    ELSE LET medias == historico[1].medias
             analise ==
                 [atendidas |-> classificarNivel(kpisHoje.answered.n, medias.atendidas.n,
                                                 up.atendidas),
                  abandonadas |-> classificarNivel(kpisHoje.abandoned.n,
                                                   medias.abandonadas.n, up.abandonadas),
                  retidasURA |-> classificarNivel(kpisHoje.retainedURA.n,
                                                  medias.retidasURA.n, up.retidasURA),
                  total |-> classificarNivel(kpisHoje.totalCalls.n, medias.total.n,
                                             up.total)]
         IN  [hoje |-> kpisHoje, historico |-> historico, analise |-> <<analise>>,
              erro |-> <<>>, resumo |-> <<analise.total>>]

\* what api.get meets for the day of an analysis: no answer, an empty
\* body, a list of one answered call, or an aggregate
TodayResponses ==
    {[status |-> 0, data |-> NullData], [status |-> 200, data |-> NullData]}
    \cup {[status |-> 200, data |-> Data("list", <<c>>, NullData.object)] :
             c \in {f \in FewCalls : f.call_date = Num(9)}}
    \cup {[status |-> 200, data |-> Data("object", <<>>, Object(a, b, c, Undef))] :
             a \in {Num(2), Str(<<"1", "2">>)}, b \in {Num(0), Str(<<"3">>)},
             c \in {Undef, Num(2)}}

\* ------------------------------------------------------------------------
\* POST /webhook/55pbx (routes.js) with validateToken and processWebhook
\* of the metrics service.  The body of a delivery is a call, identified
\* as the calls of the Day Cache are.
\*   pc      "idle" | "process" (await processWebhook(req.body)) | "answered"
\*   token   the token of the request headers ("none": no header)
\*   call    req.body
\*   date    the day of the delivery
\*   status  the status of the answer (0: none yet)
\*   result  what processWebhook returned
\* ------------------------------------------------------------------------

\* config.token of the metrics service
ConfigToken == "token"

IdleHook ==
    [pc |-> "idle", token |-> "none", call |-> 0, date |-> 0, status |-> 0,
     result |-> [processed |-> FALSE, reason |-> "none"]]

\* validateToken(receivedToken)
validateToken(receivedToken) == receivedToken = ConfigToken

\* processWebhook(callData): kept for compatibility, processes nothing
processWebhook(callData) == [processed |-> FALSE, reason |-> "using_api_mode"]

NoApiCalls ==
    /\ hook = IdleHook
    /\ kp = IdleKp
    /\ hs = IdleHs
    /\ lv = IdleLv
    /\ an = IdleAn

\* ------------------------------------------------------------------------
\* Actions
\* ------------------------------------------------------------------------

Apply(e, r) ==
    /\ ex' = [ex EXCEPT ![e] = r.x]
    /\ executionHistory' = r.h

Start(e, origin, f) ==
    /\ CanStart(e)
    /\ Apply(e, StartStretch(e, origin, executionHistory, f))
    /\ UNCHANGED <<scheduledTimes, jobs, tasks, waConfigured, reconfigs, stopGhosts>>
    /\ UNCHANGED outsideSched

\* the task is running (node-cron fires only a task that was not stopped)
\* and is a report job
IsReportTask(t) == tasks[t].key[1] = "report"

\* routes.js POST /api/trigger: scheduler.executeReport() is not awaited;
\* the handler answers in the stretch in which the invocation started
TriggerF(f) ==
    \E e \in ExecIds :
        /\ Start(e, Manual, f)
        /\ acks' = [acks EXCEPT ![e] = TriggerResponse(ex'[e])]

\* the callback of a report job: await executeReport()
FireReportJobF(f) ==
    \E e \in ExecIds, t \in DOMAIN tasks :
        /\ tasks[t].active
        /\ IsReportTask(t)
        /\ Start(e, t, f)
        /\ UNCHANGED acks

StepFrame ==
    /\ UNCHANGED <<scheduledTimes, jobs, tasks, waConfigured, reconfigs, stopGhosts,
                   acks>>
    /\ UNCHANGED outsideSched

KpisDoneF(e, f) ==
    /\ ex[e].pc = "kpis"
    /\ \E k \in KpiValues : Apply(e, KpisStretch(e, ex[e], executionHistory, k, f))
    /\ StepFrame

AnaliseKpisDoneF(e, f) ==
    /\ ex[e].pc = "analiseKpis"
    /\ \E k2 \in KpiValues :
          Apply(e, AnaliseKpisStretch(e, ex[e], executionHistory, k2, f))
    /\ StepFrame

AnaliseHistDoneF(e, f) ==
    /\ ex[e].pc = "analiseHist"
    /\ \E hist \in {"null", "ok"} :
          Apply(e, AnaliseHistStretch(e, ex[e], executionHistory, hist,
                                      waConfigured, f))
    /\ StepFrame

SendDoneF(e, f) ==
    /\ ex[e].pc = "send"
    /\ \E ok \in BOOLEAN : Apply(e, SendStretch(e, ex[e], executionHistory, ok, f))
    /\ StepFrame

DelayDone(e) ==
    /\ ex[e].pc = "delay"
    /\ Apply(e, DelayStretch(e, ex[e], executionHistory))
    /\ StepFrame

SendAnaliseDoneF(e, f) ==
    /\ ex[e].pc = "sendAnalise"
    /\ \E ok \in BOOLEAN :
          Apply(e, SendAnaliseStretch(e, ex[e], executionHistory, ok, f))
    /\ StepFrame

\* the same, in an environment where no broadcast call throws
Trigger == TriggerF(NoFault)

FireReportJob == FireReportJobF(NoFault)

KpisDone(e) == KpisDoneF(e, NoFault)

AnaliseKpisDone(e) == AnaliseKpisDoneF(e, NoFault)

AnaliseHistDone(e) == AnaliseHistDoneF(e, NoFault)

SendDone(e) == SendDoneF(e, NoFault)

SendAnaliseDone(e) == SendAnaliseDoneF(e, NoFault)

\* one step of invocation e
ExecStep(e) ==
    \/ KpisDone(e)
    \/ AnaliseKpisDone(e)
    \/ AnaliseHistDone(e)
    \/ SendDone(e)
    \/ DelayDone(e)
    \/ SendAnaliseDone(e)

\* scheduler.js setScheduledTimes(times)
SetScheduledTimes ==
    /\ reconfigs < MaxReconfig
    /\ \E times \in Schedules :
          LET st == initScheduler(jobs, StopJobs(jobs, tasks), times)
          IN  /\ scheduledTimes' = times
              /\ jobs' = st.jobs
              /\ tasks' = st.tasks
    /\ stopped' = stopped \cup JobTasks(jobs)
    /\ survivors' = survivors \cup {e \in ExecIds : InFlight(e)}
    /\ reconfigs' = reconfigs + 1
    /\ UNCHANGED <<executionHistory, ex, waConfigured, acks>>
    /\ UNCHANGED outsideSched

\* scheduler.js stopAll()
StopAll ==
    /\ tasks' = StopJobs(jobs, tasks)
    /\ stopped' = stopped \cup JobTasks(jobs)
    /\ survivors' = survivors \cup {e \in ExecIds : InFlight(e)}
    /\ UNCHANGED <<scheduledTimes, jobs, executionHistory, ex, waConfigured, reconfigs,
                   acks>>
    /\ UNCHANGED outsideSched

\* server.js start(): initScheduler() on the default schedule
Init ==
    /\ scheduledTimes = DefaultTimes
    /\ LET st == initScheduler(EmptyJobs, <<>>, DefaultTimes)
       IN  jobs = st.jobs /\ tasks = st.tasks
    /\ executionHistory = <<>>
    /\ ex = [e \in ExecIds |-> IdleExec]
    /\ waConfigured \in BOOLEAN
    /\ reconfigs = 0
    /\ stopped = {}
    /\ survivors = {}
    /\ recorded = <<>>
    /\ now = 0
    /\ nextRun = NoRun
    /\ acks = [e \in ExecIds |-> NoResponse]
    /\ d0 = IdleD0
    /\ EmptyCache
    /\ wa = IdleWa
    /\ NoViewers
    /\ NoApiCalls

Next ==
    \/ Trigger
    \/ FireReportJob
    \/ \E e \in ExecIds : KpisDone(e)
    \/ \E e \in ExecIds : AnaliseKpisDone(e)
    \/ \E e \in ExecIds : AnaliseHistDone(e)
    \/ \E e \in ExecIds : SendDone(e)
    \/ \E e \in ExecIds : DelayDone(e)
    \/ \E e \in ExecIds : SendAnaliseDone(e)
    \/ StopAll

Spec == Init /\ [][Next]_vars

\* the scheduler with its schedule reconfigured through setScheduledTimes
NextJobs ==
    \/ Next
    \/ SetScheduledTimes

SpecJobs == Init /\ [][NextJobs]_vars

\* ------------------------------------------------------------------------
\* The scheduler with its hourly refresh job.  A websocket broadcast call of
\* the refresh may throw; updateD0 catches it.
\* ------------------------------------------------------------------------

\* what the refresh never touches
outsideD0 ==
    <<scheduledTimes, jobs, tasks, executionHistory, ex, waConfigured, reconfigs,
      stopGhosts, recorded, now, nextRun, acks, cacheVars, wa, wsVars, apiVars>>

\* cron fires jobs['d0_update'] (if it was not stopped): updateD0 runs up to
\* `await api55Service.calculateDayKPIs()`
FireD0Job ==
    /\ d0.pc = "idle"
    /\ d0.fired < MaxRefresh
    /\ \E t \in DOMAIN tasks : tasks[t].active /\ tasks[t].key = D0Key
    /\ d0' = [pc |-> "kpis", fired |-> d0.fired + 1, events |-> <<>>,
              caught |-> FALSE]
    /\ UNCHANGED outsideD0

D0KpisDoneF(t) ==
    /\ d0.pc = "kpis"
    /\ \E k \in KpiValues : d0' = updateD0(d0, k, t)
    /\ UNCHANGED outsideD0

D0KpisDone == D0KpisDoneF(0)

D0KpisDoneFault == \E t \in 1..2 : D0KpisDoneF(t)

NextRefresh ==
    \/ Next
    \/ FireD0Job
    \/ D0KpisDone
    \/ D0KpisDoneFault

SpecRefresh == Init /\ [][NextRefresh]_vars

\* ------------------------------------------------------------------------
\* The Day Cache.  Every fs call is a suspension point; a file is read or
\* written as a whole at the step at which the call resolves.  fs.writeFile
\* may fail (ok = FALSE): addCall then returns false, updateMetadata ignores
\* the error.
\* ------------------------------------------------------------------------

\* what the Day Cache never touches
outsideCache ==
    <<scheduledTimes, jobs, tasks, executionHistory, ex, waConfigured, reconfigs,
      stopGhosts, recorded, now, nextRun, acks, d0, wa, wsVars, apiVars>>

\* addCall(callData): ensureDbPath() has resolved, getCallsFilePath() reads
\* the clock, fs.readFile is called
AddCallStart(a) ==
    /\ adds[a].pc = "idle"
    /\ \A b \in AddIds : b < a => adds[b].pc # "idle"
    /\ adds' = [adds EXCEPT ![a] = [IdleAdd EXCEPT !.pc = "read",
                                                   !.date = DateOf(clock)]]
    /\ UNCHANGED <<clock, callsFile, metadataFile, rd, written>>
    /\ UNCHANGED outsideCache

\* fs.readFile resolved or rejected: calls = JSON.parse(data) or [];
\* calls.push(...); fs.writeFile is called
AddReadDone(a) ==
    /\ adds[a].pc = "read"
    /\ adds' = [adds EXCEPT ![a].pc = "write",
                            ![a].base = getTodayCalls(callsFile[adds[a].date])]
    /\ UNCHANGED <<clock, callsFile, metadataFile, rd, written>>
    /\ UNCHANGED outsideCache

\* fs.writeFile of the list resolved: updateMetadata(new Date()) builds the
\* metadata and calls fs.writeFile; or it rejected: addCall returns false
AddWriteDone(a) ==
    /\ adds[a].pc = "write"
    /\ \E ok \in BOOLEAN :
          IF ok
          THEN LET d == adds[a].date
               IN  /\ callsFile' =
                         [callsFile EXCEPT ![d] =
                             [exists |-> TRUE,
                              calls |-> addCallContent(adds[a].base,
                                            getTodayCalls(callsFile[d]), a)]]
                   /\ written' = [written EXCEPT ![d] = clock]
                   /\ adds' = [adds EXCEPT ![a].pc = "meta",
                                           ![a].wroteAt = clock,
                                           ![a].metaDate = DateOf(clock),
                                           ![a].metadata = updateMetadata(clock)]
          ELSE /\ adds' = [adds EXCEPT ![a].pc = "done", ![a].ret = FALSE]
               /\ UNCHANGED <<callsFile, written>>
    /\ UNCHANGED <<clock, metadataFile, rd>>
    /\ UNCHANGED outsideCache

\* updateMetadata's fs.writeFile resolved, or rejected (ignored): addCall
\* returns true
AddMetaDone(a) ==
    /\ adds[a].pc = "meta"
    /\ \E ok \in BOOLEAN :
          metadataFile' =
              IF ok THEN [metadataFile EXCEPT ![adds[a].metaDate] = adds[a].metadata]
              ELSE metadataFile
    /\ adds' = [adds EXCEPT ![a].pc = "done", ![a].ret = TRUE]
    /\ UNCHANGED <<clock, callsFile, rd, written>>
    /\ UNCHANGED outsideCache

ReadFrame ==
    /\ UNCHANGED <<clock, adds, written>>
    /\ UNCHANGED outsideCache

\* hasCache(date): fs.access is called
HasCacheStart ==
    /\ rd.pc = "done"
    /\ \E d \in Dates :
          rd' = [IdleRead EXCEPT !.op = "hasCache", !.pc = "access", !.date = d,
                                 !.since = clock]
    /\ UNCHANGED <<callsFile, metadataFile>>
    /\ ReadFrame

\* fs.access resolved (fs.readFile of the metadata is called) or rejected
\* (return false)
HasAccessDone ==
    /\ rd.pc = "access"
    /\ rd' = IF callsFile[rd.date].exists
             THEN [rd EXCEPT !.pc = "readMeta"]
             ELSE [rd EXCEPT !.pc = "done", !.found = FALSE]
    /\ UNCHANGED <<callsFile, metadataFile>>
    /\ ReadFrame

\* fs.readFile of the metadata rejected (return true), or resolved: expired
\* (fs.unlink(filePath) is called) or not (return true)
HasMetaDone ==
    /\ rd.pc = "readMeta"
    /\ rd' = IF metadataFile[rd.date].exists
                 /\ HasExpired(metadataFile[rd.date], clock)
             THEN [rd EXCEPT !.pc = "unlinkFile"]
             ELSE [rd EXCEPT !.pc = "done", !.found = TRUE]
    /\ UNCHANGED <<callsFile, metadataFile>>
    /\ ReadFrame

\* fs.unlink(filePath) settled; fs.unlink(metadataPath) is called
HasUnlinkFileDone ==
    /\ rd.pc = "unlinkFile"
    /\ callsFile' = [callsFile EXCEPT ![rd.date] = NoCallsFile]
    /\ rd' = [rd EXCEPT !.pc = "unlinkMeta"]
    /\ UNCHANGED metadataFile
    /\ ReadFrame

\* fs.unlink(metadataPath) settled; return false
HasUnlinkMetaDone ==
    /\ rd.pc = "unlinkMeta"
    /\ metadataFile' = [metadataFile EXCEPT ![rd.date] = NoMetadataFile]
    /\ rd' = [rd EXCEPT !.pc = "done", !.found = FALSE]
    /\ UNCHANGED callsFile
    /\ ReadFrame

\* getTodayCalls(date): its one fs.readFile settled
GetTodayCalls ==
    /\ rd.pc = "done"
    /\ \E d \in Dates :
          rd' = [IdleRead EXCEPT !.op = "getTodayCalls", !.date = d,
                                 !.since = clock,
                                 !.calls = getTodayCalls(callsFile[d])]
    /\ UNCHANGED <<callsFile, metadataFile>>
    /\ ReadFrame

\* countTodayCalls(date)
CountTodayCalls ==
    /\ rd.pc = "done"
    /\ \E d \in Dates :
          rd' = [IdleRead EXCEPT !.op = "countTodayCalls", !.date = d,
                                 !.since = clock,
                                 !.count = countTodayCalls(callsFile[d])]
    /\ UNCHANGED <<callsFile, metadataFile>>
    /\ ReadFrame

\* faulty variant: getCacheTTL removes the files of a date that has expired
GetCacheTTLRemovesExpired ==
    /\ rd.pc = "done"
    /\ \E d \in Dates :
          LET gone == metadataFile[d].exists /\ getCacheTTL(metadataFile[d], clock) = -1
          IN  /\ rd' = [IdleRead EXCEPT !.op = "getCacheTTL", !.date = d,
                                        !.since = clock,
                                        !.ttl = getCacheTTL(metadataFile[d], clock)]
              /\ callsFile' = IF gone THEN [callsFile EXCEPT ![d] = NoCallsFile]
                              ELSE callsFile
              /\ metadataFile' = IF gone THEN [metadataFile EXCEPT ![d] = NoMetadataFile]
                                 ELSE metadataFile
    /\ ReadFrame

\* getCacheTTL(date): its one fs.readFile settled
GetCacheTTL ==
    /\ rd.pc = "done"
    /\ \E d \in Dates :
          rd' = [IdleRead EXCEPT !.op = "getCacheTTL", !.date = d,
                                 !.since = clock,
                                 !.ttl = getCacheTTL(metadataFile[d], clock)]
    /\ UNCHANGED <<callsFile, metadataFile>>
    /\ ReadFrame

\* a Day Cache operation is suspended in a file operation
CacheBusy == rd.pc # "done" \/ \E a \in AddIds : adds[a].pc \notin {"idle", "done"}

\* time passes: at most OpSeconds while a file operation is pending
CacheClockAdvances ==
    /\ \E t \in ClockValues :
          /\ t > clock
          /\ CacheBusy => t - clock <= OpSeconds
          /\ clock' = t
    /\ UNCHANGED <<callsFile, metadataFile, adds, rd, written>>
    /\ UNCHANGED outsideCache

NextCache ==
    \/ \E a \in AddIds : AddCallStart(a)
    \/ \E a \in AddIds : AddReadDone(a)
    \/ \E a \in AddIds : AddWriteDone(a)
    \/ \E a \in AddIds : AddMetaDone(a)
    \/ HasCacheStart
    \/ HasAccessDone
    \/ HasMetaDone
    \/ HasUnlinkFileDone
    \/ HasUnlinkMetaDone
    \/ GetTodayCalls
    \/ CountTodayCalls
    \/ GetCacheTTL
    \/ CacheClockAdvances

SpecCache == Init /\ [][NextCache]_vars

\* the Day Cache in sequential use: an operation is invoked only when no
\* other is suspended in a file operation
NextCacheInTurn ==
    \/ ~CacheBusy /\ \E a \in AddIds : AddCallStart(a)
    \/ \E a \in AddIds : AddReadDone(a)
    \/ \E a \in AddIds : AddWriteDone(a)
    \/ \E a \in AddIds : AddMetaDone(a)
    \/ ~CacheBusy /\ HasCacheStart
    \/ HasAccessDone
    \/ HasMetaDone
    \/ HasUnlinkFileDone
    \/ HasUnlinkMetaDone
    \/ ~CacheBusy /\ GetTodayCalls
    \/ ~CacheBusy /\ CountTodayCalls
    \/ ~CacheBusy /\ GetCacheTTL
    \/ CacheClockAdvances

SpecCacheInTurn == Init /\ [][NextCacheInTurn]_vars

\* ------------------------------------------------------------------------
\* The dispatcher called on its own, one call after the other, with every
\* kind of comparison argument
\* ------------------------------------------------------------------------

outsideWa ==
    <<scheduledTimes, jobs, tasks, executionHistory, ex, waConfigured, reconfigs,
      stopGhosts, recorded, now, nextRun, acks, d0, cacheVars, wsVars, apiVars>>

SendRelatorio ==
    /\ wa.pc \in {"idle", "returned"}
    /\ wa.calls < MaxDispatch
    /\ \E k \in KpiValues, analise \in AnaliseArgs :
          wa' = sendRelatorio(wa, k, analise, waConfigured)
    /\ UNCHANGED outsideWa

ReportPosted ==
    /\ wa.pc = "post"
    /\ \E ok \in BOOLEAN : wa' = sendRelatorioPosted(wa, ok)
    /\ UNCHANGED outsideWa

PauseDone ==
    /\ wa.pc = "delay"
    /\ wa' = sendAnaliseHistorica(wa)
    /\ UNCHANGED outsideWa

AnalisePosted ==
    /\ wa.pc = "postAnalise"
    /\ \E ok \in BOOLEAN : wa' = sendMessage(wa, ok)
    /\ UNCHANGED outsideWa

NextDispatch ==
    \/ SendRelatorio
    \/ ReportPosted
    \/ PauseDone
    \/ AnalisePosted

SpecDispatch == Init /\ [][NextDispatch]_vars

\* ------------------------------------------------------------------------
\* The broadcaster: connections come and go, events are broadcast
\* ------------------------------------------------------------------------

outsideWs ==
    <<scheduledTimes, jobs, tasks, executionHistory, ex, waConfigured, reconfigs,
      stopGhosts, recorded, now, nextRun, acks, d0, cacheVars, wa, apiVars>>

\* wss.on('connection'): clients.add(ws); sendToClient(ws, greeting)
Connect(v) ==
    /\ readyState[v] = "NONE"
    /\ \A u \in Viewers : u < v => readyState[u] # "NONE"
    /\ readyState' = [readyState EXCEPT ![v] = "OPEN"]
    /\ clients' = Append(clients, v)
    /\ inbox' = [inbox EXCEPT ![v] = Append(@, Greeting)]
    /\ UNCHANGED <<published, rejected, publishers, clientCount>>
    /\ UNCHANGED outsideWs

\* the closing handshake of a connection starts; no handler runs yet
SocketCloses(v) ==
    /\ readyState[v] = "OPEN"
    /\ readyState' = [readyState EXCEPT ![v] = "CLOSING"]
    /\ UNCHANGED <<clients, inbox, published, rejected, publishers, clientCount>>
    /\ UNCHANGED outsideWs

\* ws.on('close'): clients.delete(ws)
CloseEvent(v) ==
    /\ readyState[v] = "CLOSING"
    /\ readyState' = [readyState EXCEPT ![v] = "CLOSED"]
    /\ clients' = DeleteClient(clients, v)
    /\ UNCHANGED <<inbox, published, rejected, publishers, clientCount>>
    /\ UNCHANGED outsideWs

\* ws.on('error'): clients.delete(ws); the library closes the connection
ErrorEvent(v) ==
    /\ readyState[v] = "OPEN"
    /\ readyState' = [readyState EXCEPT ![v] = "CLOSING"]
    /\ clients' = DeleteClient(clients, v)
    /\ UNCHANGED <<inbox, published, rejected, publishers, clientCount>>
    /\ UNCHANGED outsideWs

\* broadcast(data), for the next event.  broadcast has no await: the call
\* of one invocation of executeReport runs to its end before a call of
\* another (or a later call of the same) starts.
Publish ==
    /\ published < MaxPublish
    /\ \E e \in ExecIds : publishers' = Append(publishers, e)
    /\ LET r == broadcast([inbox |-> inbox, rejected |-> rejected], clients,
                          readyState, published + 1, 1)
       IN  /\ inbox' = r.inbox
           /\ rejected' = r.rejected
    /\ published' = published + 1
    /\ UNCHANGED <<clients, readyState, clientCount>>
    /\ UNCHANGED outsideWs

\* getClientCount(), as GET /api/status calls it
GetClientCount ==
    /\ clientCount' = getClientCount(clients)
    /\ UNCHANGED <<clients, readyState, inbox, published, rejected, publishers>>
    /\ UNCHANGED outsideWs

NextBroadcast ==
    \/ \E v \in Viewers : Connect(v)
    \/ \E v \in Viewers : SocketCloses(v)
    \/ \E v \in Viewers : CloseEvent(v)
    \/ \E v \in Viewers : ErrorEvent(v)
    \/ Publish
    \/ GetClientCount

SpecBroadcast == Init /\ [][NextBroadcast]_vars

\* ------------------------------------------------------------------------
\* The metrics service called on its own
\* ------------------------------------------------------------------------

outsideApi ==
    <<scheduledTimes, jobs, tasks, executionHistory, ex, waConfigured, reconfigs,
      stopGhosts, recorded, now, nextRun, acks, d0, cacheVars, wa, wsVars>>

\* calculateDayKPIs() up to `await fetchTodayCalls()`
CalculateDayKPIs ==
    /\ kp.pc = "idle"
    /\ \E configured \in BOOLEAN :
          kp' = [kp EXCEPT !.pc = "fetch", !.configured = configured]
    /\ UNCHANGED <<hs, lv, an, hook>>
    /\ UNCHANGED outsideApi

\* fetchTodayCalls has resolved (api.get is called only when the service is
\* configured); calculateDayKPIs computes the KPIs and returns them
FetchTodayCallsDone ==
    /\ kp.pc = "fetch"
    /\ \E response \in IF kp.configured THEN Responses ELSE {IdleKp.response} :
          kp' = [kp EXCEPT !.pc = "returned", !.response = response,
                           !.ret = calculateDayKPIs(fetchTodayCalls(kp.configured, response))]
    /\ UNCHANGED <<hs, lv, an, hook>>
    /\ UNCHANGED outsideApi

NextKpis ==
    \/ CalculateDayKPIs
    \/ FetchTodayCallsDone

SpecKpis == Init /\ [][NextKpis]_vars

\* fetchHistoricalData(days) up to `await sendLog(...)` (line 461)
FetchHistoricalData ==
    /\ hs.pc = "idle"
    /\ \E days \in 1..MaxDays, configured \in BOOLEAN :
          hs' = [hs EXCEPT !.pc = "log", !.days = days, !.configured = configured]
    /\ UNCHANGED <<kp, lv, an, hook>>
    /\ UNCHANGED outsideApi

\* sendLog has resolved: historico = [], hoje = new Date(), and the loop
\* starts with i = 1 (days >= 1)
HistoryLogged ==
    /\ hs.pc = "log"
    /\ hs' = fetchDay(hs, 1)
    /\ UNCHANGED <<kp, lv, an, hook>>
    /\ UNCHANGED outsideApi

\* fetchDayData has resolved (api.get is called only when the service is
\* configured)
DayFetched ==
    /\ hs.pc = "fetch"
    /\ \E response \in IF hs.configured THEN DayResponses ELSE {IdleKp.response} :
          hs' = dayFetched(hs, response)
    /\ UNCHANGED <<kp, lv, an, hook>>
    /\ UNCHANGED outsideApi

\* the timer of 300 ms has fired
Paused ==
    /\ hs.pc = "pause"
    /\ hs' = paused(hs)
    /\ UNCHANGED <<kp, lv, an, hook>>
    /\ UNCHANGED outsideApi

\* the last sendLog has resolved: fetchHistoricalData returns
HistoryReturned ==
    /\ hs.pc = "logEnd"
    /\ hs' = [hs EXCEPT !.pc = "returned", !.ret = historyOf(hs.historico)]
    /\ UNCHANGED <<kp, lv, an, hook>>
    /\ UNCHANGED outsideApi

\* classificarNivel(valorAtual, media)
ClassificarNivel ==
    /\ lv.pc = "idle"
    /\ \E valorAtual \in 0..MaxValor, media \in 0..MaxMedia, up \in BOOLEAN :
          lv' = [pc |-> "returned", valorAtual |-> valorAtual, media |-> media,
                 ret |-> classificarNivel(valorAtual, media, up)]
    /\ UNCHANGED <<kp, hs, an, hook>>
    /\ UNCHANGED outsideApi

NextNivel == ClassificarNivel

SpecNivel == Init /\ [][NextNivel]_vars

NextHistorico ==
    \/ FetchHistoricalData
    \/ HistoryLogged
    \/ DayFetched
    \/ Paused
    \/ HistoryReturned

SpecHistorico == Init /\ [][NextHistorico]_vars

\* analisarDiaAtual() up to `await calculateDayKPIs()`, which runs up to
\* its `await fetchTodayCalls()`
AnalisarDiaAtual ==
    /\ an.pc = "idle"
    /\ kp.pc = "idle"
    /\ an' = [an EXCEPT !.pc = "kpis"]
    /\ \E configured \in BOOLEAN :
          kp' = [kp EXCEPT !.pc = "fetch", !.configured = configured]
    /\ UNCHANGED <<hs, lv, hook>>
    /\ UNCHANGED outsideApi

\* calculateDayKPIs has resolved with kpisHoje; fetchHistoricalData(15) runs
\* up to its first `await sendLog(...)`.  The model asks for MaxDays days.
AnaliseKpisReturned ==
    /\ an.pc = "kpis"
    /\ kp.pc = "fetch"
    /\ \E response \in IF kp.configured THEN TodayResponses ELSE {IdleKp.response} :
          kp' = [kp EXCEPT !.pc = "returned", !.response = response,
                           !.ret = calculateDayKPIs(fetchTodayCalls(kp.configured, response))]
    /\ hs' = [IdleHs EXCEPT !.pc = "log", !.days = MaxDays, !.configured = kp.configured]
    /\ an' = [an EXCEPT !.pc = "historico"]
    /\ UNCHANGED <<lv, hook>>
    /\ UNCHANGED outsideApi

\* fetchHistoricalData has resolved: lines 571-597
AnaliseReturned ==
    /\ an.pc = "historico"
    /\ hs.pc = "returned"
    /\ \E up \in [{"atendidas", "abandonadas", "retidasURA", "total"} -> BOOLEAN] :
          an' = [pc |-> "returned", ret |-> analisarDiaAtual(kp.ret, hs.ret, up)]
    /\ UNCHANGED <<kp, hs, lv, hook>>
    /\ UNCHANGED outsideApi

NextAnalise ==
    \/ AnalisarDiaAtual
    \/ AnaliseKpisReturned
    \/ HistoryLogged
    \/ DayFetched
    \/ Paused
    \/ HistoryReturned
    \/ AnaliseReturned

SpecAnalise == Init /\ [][NextAnalise]_vars

\* ------------------------------------------------------------------------
\* Deliveries to the webhook, one after the other, between read accesses
\* to the Day Cache.  No handler of the server calls addCall.
\* ------------------------------------------------------------------------

\* POST /webhook/55pbx up to `await processWebhook(req.body)`; 401 at once
\* for a token that validateToken refuses
WebhookReceived ==
    /\ hook.pc \in {"idle", "answered"}
    /\ \E token \in {"none", "other", ConfigToken}, call \in AddIds :
          hook' = IF validateToken(token)
                  THEN [IdleHook EXCEPT !.pc = "process", !.token = token,
                                        !.call = call, !.date = DateOf(clock)]
                  ELSE [IdleHook EXCEPT !.pc = "answered", !.token = token,
                                        !.call = call, !.date = DateOf(clock),
                                        !.status = 401]
    /\ UNCHANGED <<kp, hs, lv, an>>
    /\ UNCHANGED outsideApi

\* processWebhook has resolved: notifyNewCall if result.processed, then
\* res.json({success: true, ...result})
WebhookProcessed ==
    /\ hook.pc = "process"
    /\ LET result == processWebhook(hook.call)
           r == IF result.processed
                THEN broadcast([inbox |-> inbox, rejected |-> rejected], clients,
                               readyState, published + 1, 1)
                ELSE [inbox |-> inbox, rejected |-> rejected]
       IN  /\ hook' = [hook EXCEPT !.pc = "answered", !.status = 200, !.result = result]
           /\ inbox' = r.inbox
           /\ rejected' = r.rejected
           /\ published' = IF result.processed THEN published + 1 ELSE published
    /\ UNCHANGED <<kp, hs, lv, an>>
    /\ UNCHANGED <<scheduledTimes, jobs, tasks, executionHistory, ex, waConfigured,
                   reconfigs, stopGhosts, recorded, now, nextRun, acks, d0, cacheVars,
                   wa, clients, readyState, publishers, clientCount>>

NextWebhook ==
    \/ WebhookReceived
    \/ WebhookProcessed
    \/ HasCacheStart
    \/ HasAccessDone
    \/ GetTodayCalls
    \/ CountTodayCalls
    \/ GetCacheTTL
    \/ CacheClockAdvances

SpecWebhook == Init /\ [][NextWebhook]_vars

\* ------------------------------------------------------------------------
\* The same scheduler in an environment where a websocket broadcast call
\* may throw (client.send of the viewer transport).  Every exception of the
\* try block of executeReport comes from such a call: calculateDayKPIs,
\* fetchTodayCalls, fetchDayData and sendRelatorio catch their own errors.
\* A fault always ends the invocation, through the catch block.
\* ------------------------------------------------------------------------

Ended(e) == ex'[e].pc \in {"done", "thrown"}

TriggerFault == \E f \in Faults(1) : TriggerF(f)

FireReportJobFault == \E f \in Faults(1) : FireReportJobF(f)

KpisDoneFault(e) == \E f \in Faults(2) : KpisDoneF(e, f)

AnaliseKpisDoneFault(e) == \E f \in Faults(1) : AnaliseKpisDoneF(e, f)

AnaliseHistDoneFault(e) == \E f \in Faults(3) : AnaliseHistDoneF(e, f) /\ Ended(e)

SendDoneFault(e) == \E f \in Faults(2) : SendDoneF(e, f) /\ Ended(e)

SendAnaliseDoneFault(e) == \E f \in Faults(2) : SendAnaliseDoneF(e, f)

NextFault ==
    \/ Next
    \/ TriggerFault
    \/ FireReportJobFault
    \/ \E e \in ExecIds : KpisDoneFault(e)
    \/ \E e \in ExecIds : AnaliseKpisDoneFault(e)
    \/ \E e \in ExecIds : AnaliseHistDoneFault(e)
    \/ \E e \in ExecIds : SendDoneFault(e)
    \/ \E e \in ExecIds : SendAnaliseDoneFault(e)

SpecFault == Init /\ [][NextFault]_vars

\* ------------------------------------------------------------------------
\* addToHistory on its own: one record after the other, as sequential
\* executions hand them over
\* ------------------------------------------------------------------------

Failures(h) == Cardinality({i \in DOMAIN h : ~h[i].success})

RecordExecution ==
    /\ Len(recorded) < MaxRecorded
    /\ \E success \in BOOLEAN :
          LET execution == ExecRecord(Len(recorded) + 1, success, 1,
                                      IF success THEN "none" ELSE "axios")
          IN  /\ ~success => Failures(recorded) < MaxFailures
              /\ executionHistory' = addToHistory(executionHistory, execution)
              /\ recorded' = Append(recorded, execution)
    /\ UNCHANGED <<scheduledTimes, jobs, tasks, ex, waConfigured, reconfigs,
                   stopGhosts, now, nextRun, acks, beyondSched>>

NextHistory == RecordExecution

SpecHistory == Init /\ [][NextHistory]_vars

\* ------------------------------------------------------------------------
\* getNextRun (scheduler.js).  Instants are seconds since the local midnight
\* of day 0; a day has 86400 of them.
\* ------------------------------------------------------------------------

\* "00:00", "09:30", "23:59"
T0000 == <<0, 0, 0, 0>>

T0930 == <<0, 9, 3, 0>>

T2359 == <<2, 3, 5, 9>>

NrTimes == {T0000, T0900, T0930, T1800, T2359}

NrSchedules == UNION {[1..n -> NrTimes] : n \in 1..MaxNrTimes}

\* instants of day 0: the configured times, one second around them, 10:00, 19:00
NowValues ==
    {0, 1, 32399, 32400, 32401, 34199, 34200, 34201, 36000, 64799, 64800,
     64801, 68400, 86339, 86340, 86341, 86399}

\* a < b for two "HH:MM" strings, as Array.prototype.sort() compares them:
\* by the first character that differs
LexLess(a, b) ==
    \E i \in 1..4 : a[i] < b[i] /\ \A j \in 1..(i - 1) : a[j] = b[j]

\* time.split(':').map(Number)
HourOf(time) == 10 * time[1] + time[2]

MinuteOf(time) == 10 * time[3] + time[4]

\* new Date(today).setHours(hour, minute || 0, 0, 0)
AtTime(midnight, time) == midnight + 3600 * HourOf(time) + 60 * MinuteOf(time)

\* new Date(now.getFullYear(), now.getMonth(), now.getDate())
Midnight(t) == t - (t % DaySeconds)

\* scheduledTimes.sort()
SortTimes(times) == SortSeq(times, LexLess)

\* faulty variant: a time equal to now counts as the next run
getNextRunNotStrict(times, t) ==
    LET sorted == SortTimes(times)
        later == {i \in DOMAIN sorted : AtTime(Midnight(t), sorted[i]) >= t}
    IN  IF later # {}
        THEN AtTime(Midnight(t), sorted[CHOOSE i \in later : \A j \in later : i <= j])
        ELSE AtTime(Midnight(t) + DaySeconds, sorted[1])

\* getNextRun(): the first time of the sorted schedule that is after now,
\* else the first time of the sorted schedule on the next day
getNextRun(times, t) ==
    LET sorted == SortTimes(times)
        later == {i \in DOMAIN sorted : AtTime(Midnight(t), sorted[i]) > t}
    IN  IF later # {}
        THEN AtTime(Midnight(t), sorted[CHOOSE i \in later : \A j \in later : i <= j])
        ELSE AtTime(Midnight(t) + DaySeconds, sorted[1])

\* GET /api/next-run: getNextRun() sorts scheduledTimes in place
GetNextRun ==
    /\ nextRun' = getNextRun(scheduledTimes, now)
    /\ scheduledTimes' = SortTimes(scheduledTimes)
    /\ UNCHANGED <<jobs, tasks, executionHistory, ex, waConfigured, reconfigs,
                   stopGhosts, recorded, now, acks, beyondSched>>

\* time passes; what getNextRun returned before is not kept
ClockAdvances ==
    /\ \E t \in NowValues : t > now /\ now' = t
    /\ nextRun' = NoRun
    /\ UNCHANGED <<scheduledTimes, jobs, tasks, executionHistory, ex, waConfigured,
                   reconfigs, stopGhosts, recorded, acks, beyondSched>>

\* the scheduler started with REPORT_TIMES set to a list of times
InitNextRun ==
    /\ scheduledTimes \in NrSchedules
    /\ LET st == initScheduler(EmptyJobs, <<>>, scheduledTimes)
       IN  jobs = st.jobs /\ tasks = st.tasks
    /\ executionHistory = <<>>
    /\ ex = [e \in ExecIds |-> IdleExec]
    /\ waConfigured \in BOOLEAN
    /\ reconfigs = 0
    /\ stopped = {}
    /\ survivors = {}
    /\ recorded = <<>>
    /\ now \in NowValues
    /\ nextRun = NoRun
    /\ acks = [e \in ExecIds |-> NoResponse]
    /\ d0 = IdleD0
    /\ EmptyCache
    /\ wa = IdleWa
    /\ NoViewers
    /\ NoApiCalls

NextNextRun ==
    \/ GetNextRun
    \/ ClockAdvances

SpecNextRun == InitNextRun /\ [][NextNextRun]_vars

\* ------------------------------------------------------------------------
\* Properties
\* ------------------------------------------------------------------------

\* the records of invocation e in the execution history
RecordsOf(e) == {i \in DOMAIN executionHistory : executionHistory[i].exec = e}

TerminalEvents == {"execution_complete", "execution_error"}

\* the terminal events invocation e has broadcast
EventsOf(e) == {i \in DOMAIN ex[e].trace : ex[e].trace[i][1] \in TerminalEvents}

\* the broadcast calls and the steps of invocation e, without the log lines
StepsOf(e) ==
    LET steps == SelectSeq(ex[e].trace, LAMBDA s : s[1] # "log")
    IN  [i \in DOMAIN steps |->
            IF steps[i][1] \in TerminalEvents THEN "event" ELSE steps[i][1]]

IsPrefix(s, t) == Len(s) <= Len(t) /\ \A i \in DOMAIN s : s[i] = t[i]

\* C1: every invocation of executeReport, whichever call fails (a broadcast
\* call included), returns without throwing, has appended exactly one
\* execution record and has broadcast exactly one terminal event.
C1_OneRecordOneEvent ==
    \A e \in ExecIds :
        /\ ex[e].pc # "thrown"
        /\ ex[e].pc = "done" =>
              /\ Cardinality(RecordsOf(e)) = 1
              /\ Cardinality(EventsOf(e)) = 1

\* C2: within one invocation the steps come in the order: KPIs computed,
\* historical comparison computed, dispatch, record appended, terminal event
\* broadcast; no step starts before the one before it has finished.
ReportOrder ==
    <<"kpis_start", "kpis_end", "analise_start", "analise_end",
      "send_start", "send_end", "record", "event">>

C2_StepsInOrder ==
    \A e \in ExecIds :
        /\ IsPrefix(StepsOf(e), ReportOrder)
        /\ ex[e].pc = "done" => StepsOf(e) = ReportOrder

C2_Witness ==
    \E e \in ExecIds :
        /\ ex[e].pc = "done"
        /\ StepsOf(e) = ReportOrder
        /\ Len(ex[e].msgs) = 2

\* C3: a dispatch that fails gives a record with success = false and the
\* dispatcher's error, and execution_error (never execution_complete); a
\* dispatch that succeeds gives a record with success = true and
\* execution_complete.  The jobs stay scheduled either way.
C3_DispatchOutcomeRecorded ==
    /\ \A e \in ExecIds : ex[e].pc = "done" =>
          \E i \in DOMAIN executionHistory :
              LET r == executionHistory[i]
                  events == {s[1] : s \in {ex[e].trace[j] : j \in EventsOf(e)}}
              IN  /\ RecordsOf(e) = {i}
                  /\ ex[e].result # "none"
                  /\ ex[e].result = "ok" =>
                        /\ r.success /\ r.error = "none"
                        /\ events = {"execution_complete"}
                  /\ ex[e].result # "ok" =>
                        /\ ~r.success /\ r.error = ex[e].result
                        /\ events = {"execution_error"}
    /\ \A t \in DOMAIN tasks : tasks[t].active \/ t \in stopped

C3_Witness ==
    \E e \in ExecIds :
        /\ ex[e].pc = "done"
        /\ ex[e].result = "axios"
        /\ ~executionHistory[1].success
        /\ executionHistory[1].exec = e
        /\ \A t \in DOMAIN tasks : tasks[t].active

\* the KPIs invocation e has computed (its first computation), if any
ComputedKpis(e) ==
    {s[2] : s \in {ex[e].trace[j] : j \in {i \in DOMAIN ex[e].trace :
                                               ex[e].trace[i][1] = "kpis_end"}}}

\* C4: a record of an invocation that threw after its KPIs were computed
\* stores those KPIs; it stores none only when nothing was computed.
C4_FailedRecordKeepsKpis ==
    \A i \in DOMAIN executionHistory :
        LET r == executionHistory[i]
        IN  r.error = "thrown" =>
                IF ComputedKpis(r.exec) = {}
                THEN r.kpis = NoKpis
                ELSE r.kpis \in ComputedKpis(r.exec)

Min(S) == CHOOSE m \in S : \A n \in S : m <= n

\* C5: the execution history holds at most 50 records, the most recently
\* recorded first; the 51st and later records push out exactly the oldest
\* (after 60 records it is the last 50, the newest at the head).
C5_HistoryIsLast50 ==
    /\ Len(executionHistory) = Min({Len(recorded), 50})
    /\ \A i \in DOMAIN executionHistory :
          executionHistory[i] = recorded[Len(recorded) - i + 1]

C5_Witness ==
    /\ Len(recorded) = 60
    /\ Len(executionHistory) = 50
    /\ executionHistory[1].exec = 60
    /\ executionHistory[50].exec = 11
    /\ \E i \in DOMAIN executionHistory : ~executionHistory[i].success

\* C6: no mutual exclusion between executions: a manual trigger starts at
\* once whatever the other invocations are doing, and an invocation in
\* flight can always take its next step, whatever the others are doing.
C6_NoMutualExclusion ==
    /\ (\E e \in ExecIds : ex[e].pc = "idle") => ENABLED Trigger
    /\ \A e \in ExecIds : InFlight(e) => ENABLED ExecStep(e)

\* a scheduled and a manual execution overlap and both have sent the report
C6_Witness ==
    \E a, b \in ExecIds :
        /\ InFlight(a) /\ ex[a].origin # Manual
        /\ InFlight(b) /\ ex[b].origin = Manual
        /\ ex[a].msgs # <<>> /\ ex[b].msgs # <<>>

\* C7: under overlapping executions the history gains exactly one record
\* per execution, and each completion puts its record at the head, above
\* the records that were there: the head is the most recently completed.
C7_AppendIsAtomic ==
    /\ [](/\ \A e \in ExecIds :
                Cardinality(RecordsOf(e)) = IF ex[e].pc = "done" THEN 1 ELSE 0
          /\ Len(executionHistory) = Cardinality({e \in ExecIds : ex[e].pc = "done"}))
    /\ [][/\ \A e \in ExecIds :
                (ex[e].pc # "done" /\ ex'[e].pc = "done") =>
                    /\ executionHistory' # <<>>
                    /\ Head(executionHistory').exec = e
                    /\ Tail(executionHistory') = executionHistory
          /\ (\A e \in ExecIds : ex'[e].pc = "done" => ex[e].pc = "done") =>
                executionHistory' = executionHistory]_vars

\* execution 1 started first and completed last: it is recorded above 2
C7_Witness ==
    /\ Len(executionHistory) = 2
    /\ executionHistory[1].exec = 1
    /\ executionHistory[2].exec = 2

\* the instants of the configured times on the day of t
TimesOfDay(times, t) == {AtTime(Midnight(t), times[i]) : i \in DOMAIN times}

\* C8: getNextRun returns the earliest configured time of today that is
\* strictly after now, else the earliest configured time of the next day;
\* the result is strictly in the future.
C8_NextRunIsEarliestFuture ==
    nextRun # NoRun =>
        LET today == TimesOfDay(scheduledTimes, now)
            later == {u \in today : u > now}
            configured == {scheduledTimes[i] : i \in DOMAIN scheduledTimes}
        IN  /\ nextRun = IF later # {} THEN Min(later)
                         ELSE Min({u + 86400 : u \in today})
            /\ nextRun > now
            /\ (configured = {T0900, T1800} /\ now = 36000) => nextRun = 64800
            /\ (configured = {T0900, T1800} /\ now = 68400) => nextRun = 118800

\* schedule ["09:00", "18:00"] at 19:00: tomorrow at 09:00
C8_Witness ==
    /\ scheduledTimes = <<T0900, T1800>>
    /\ now = 68400
    /\ nextRun = 118800

ActiveTasks(ts, key) == {t \in DOMAIN ts : ts[t].active /\ ts[t].key = key}

\* C9: after setScheduledTimes(T) every job that existed before is stopped
\* and the active jobs are exactly one report job per time of T and one
\* hourly refresh job.
C9_ReconfigureReplacesJobs ==
    [][reconfigs' # reconfigs =>
          /\ \A t \in DOMAIN tasks : ~tasks'[t].active
          /\ \A i \in DOMAIN scheduledTimes' :
                Cardinality(ActiveTasks(tasks', ReportKey(scheduledTimes'[i]))) = 1
          /\ \A t \in DOMAIN tasks' :
                (tasks'[t].active /\ tasks'[t].key # D0Key) =>
                    \E i \in DOMAIN scheduledTimes' :
                        tasks'[t].key = ReportKey(scheduledTimes'[i])
          /\ Cardinality(ActiveTasks(tasks', D0Key)) = 1]_vars

\* C10: a job that a stop operation (stopAll, setScheduledTimes) has stopped
\* never fires again; the stop leaves the invocations in flight alone: they
\* can still take every step, and end with one record and one terminal event.
C10_StopDoesNotCancel ==
    /\ [](\A e \in ExecIds :
             /\ InFlight(e) => ENABLED ExecStep(e)
             /\ (e \in survivors /\ ex[e].pc \notin InFlightPcs) =>
                   /\ ex[e].pc = "done"
                   /\ Cardinality(RecordsOf(e)) = 1
                   /\ Cardinality(EventsOf(e)) = 1)
    /\ [][/\ \A e \in ExecIds :
                (ex[e].pc = "idle" /\ ex'[e].pc # "idle" /\ ex'[e].origin # Manual)
                    => ex'[e].origin \notin stopped
          /\ stopped' # stopped =>
                /\ ex' = ex
                /\ executionHistory' = executionHistory
                /\ \A t \in stopped' : ~tasks'[t].active]_vars

\* an execution fired by a job, in flight when the job was stopped, is done
C10_Witness ==
    \E e \in survivors :
        /\ ex[e].pc = "done"
        /\ ex[e].origin \in stopped
        /\ RecordsOf(e) # {}
        /\ EventsOf(e) # {}

\* C11: a firing of the hourly refresh job recomputes today's KPIs and
\* broadcasts them as a d0_update event (unless a broadcast throws, which
\* updateD0 swallows); no step of the refresh sends a message through the
\* dispatcher, changes the execution history, or stops or replaces a job.
C11_RefreshOnlyBroadcasts ==
    /\ [](d0.pc = "idle" /\ d0.fired > 0 /\ ~d0.caught =>
              /\ Len(d0.events) = 2
              /\ d0.events[1][1] = "d0_update"
              /\ d0.events[1][2] \in KpiValues)
    /\ [][d0' # d0 =>
              /\ executionHistory' = executionHistory
              /\ ex' = ex
              /\ tasks' = tasks
              /\ jobs' = jobs
              /\ (d0.pc = "kpis" => d0'.pc = "idle")]_vars

\* a refresh has broadcast the KPIs while a report execution was in flight
\* and the history held a record
C11_Witness ==
    /\ d0.pc = "idle"
    /\ d0.fired = 2
    /\ ~d0.caught
    /\ d0.events[1][1] = "d0_update"
    /\ executionHistory # <<>>
    /\ \E e \in ExecIds : InFlight(e)

\* C12: the manual trigger is answered with the success acknowledgement in
\* the step that starts the execution, while the execution is still in
\* flight, and the answer is the same acknowledgement whether the execution
\* then succeeds or fails.
C12_TriggerIsFireAndForget ==
    \A e \in ExecIds :
        /\ (ex[e].pc # "idle" /\ ex[e].origin = Manual) => acks[e] = TriggerAck
        /\ (ex[e].pc = "idle" \/ ex[e].origin # Manual) => acks[e] = NoResponse

\* one triggered execution failed, another is still in flight: both requests
\* got the acknowledgement
C12_Witness ==
    \E e, d \in ExecIds :
        /\ ex[e].origin = Manual /\ ex[e].pc = "done"
        /\ \E i \in RecordsOf(e) : ~executionHistory[i].success
        /\ ex[d].origin = Manual /\ InFlight(d)
        /\ acks[e] = TriggerAck /\ acks[d] = TriggerAck

\* C13: after a call was written, hasCache(date) returns true when it ends
\* before 25 hours have passed since the last write of that date's list; a
\* hasCache(date) called after those 25 hours returns false, and neither
\* the list nor the metadata of the date remain.
C13_ExistsUntilExpiry ==
    [][(rd.op = "hasCache" /\ rd.pc # "done" /\ rd'.pc = "done"
            /\ written[rd.date] >= 0) =>
          LET d == rd.date
              expiry == written[d] + DEFAULT_TTL
          IN  /\ clock < expiry => rd'.found
              /\ rd.since > expiry =>
                    /\ ~rd'.found
                    /\ ~callsFile'[d].exists
                    /\ ~metadataFile'[d].exists]_vars

\* C14: when addCall returns true, the metadata of the day it wrote to exist
\* and expire 25 hours after its write or later, and the remaining TTL of
\* that day is positive and at most 90000 seconds.
C14_TtlIsSliding ==
    [][\A a \in AddIds :
          (adds[a].pc = "meta" /\ adds'[a].pc = "done" /\ adds'[a].ret) =>
              LET d == adds[a].date
              IN  /\ metadataFile'[d].exists
                  /\ metadataFile'[d].expiresAt >= adds[a].wroteAt + DEFAULT_TTL
                  /\ getCacheTTL(metadataFile'[d], clock) \in 1..DEFAULT_TTL]_vars

\* C15: a read access (getTodayCalls, countTodayCalls, hasCache) to a date
\* whose metadata say it has expired finds nothing (no calls, count 0,
\* exists false), and the list is deleted when the access ends.
C15_ExpiredIsAbsent ==
    [][(rd' # rd /\ rd'.pc = "done"
            /\ rd'.op \in {"getTodayCalls", "countTodayCalls", "hasCache"}
            /\ metadataFile[rd'.date].exists
            /\ HasExpired(metadataFile[rd'.date], rd'.since)) =>
          /\ rd'.calls = <<>>
          /\ rd'.count = 0
          /\ ~rd'.found
          /\ ~callsFile'[rd'.date].exists]_vars

\* C16: if two addCall invocations for the same day have both read the list
\* before either wrote it, the list never holds the calls of both, although
\* both return true.
C16_LostUpdate ==
    \A a, b \in AddIds :
        (/\ a # b
         /\ adds[a].pc \in {"meta", "done"} /\ adds[b].pc \in {"write", "meta", "done"}
         /\ adds[a].date = adds[b].date
         /\ \A i \in DOMAIN adds[a].base : adds[a].base[i] # b
         /\ \A i \in DOMAIN adds[b].base : adds[b].base[i] # a)
        => LET calls == callsFile[adds[a].date].calls
           IN  ~(\E i, j \in DOMAIN calls : calls[i] = a /\ calls[j] = b)

\* both invocations returned true and the day's list holds one call only
C16_Witness ==
    \E a, b \in AddIds :
        /\ a # b
        /\ adds[a].pc = "done" /\ adds[a].ret
        /\ adds[b].pc = "done" /\ adds[b].ret
        /\ adds[a].date = adds[b].date
        /\ adds[a].base = <<>> /\ adds[b].base = <<>>
        /\ callsFile[adds[a].date].exists
        /\ Len(callsFile[adds[a].date].calls) = 1

\* C18: when the report message was accepted and the comparison message
\* failed, sendRelatorio has returned success, the report stays sent, and the
\* execution's record is a successful one without an error.
C18_SecondFailureIsNotAFailure ==
    \A e \in ExecIds :
        (ex[e].pc = "done"
            /\ ex[e].posts = <<<<"relatorio", TRUE>>, <<"analise", FALSE>>>>) =>
            /\ ex[e].result = "ok"
            /\ Len(ex[e].msgs) = 1
            /\ ex[e].msgs[1][1] = "relatorio"
            /\ Cardinality(RecordsOf(e)) = 1
            /\ \A i \in RecordsOf(e) :
                  executionHistory[i].success /\ executionHistory[i].error = "none"

\* an execution has ended whose comparison message failed after its report
C18_Witness ==
    \E e \in ExecIds :
        /\ ex[e].pc = "done"
        /\ ex[e].posts = <<<<"relatorio", TRUE>>, <<"analise", FALSE>>>>
        /\ \E i \in RecordsOf(e) : executionHistory[i].success

\* the kinds of the api.post calls of the dispatcher's call, in order
PostKinds == [i \in DOMAIN wa.posts |-> wa.posts[i][1]]

\* C17: a call of sendRelatorio with the API configured makes exactly two
\* posts, the report and then the comparison, when the comparison carries
\* classifications and the report was accepted (the comparison is posted
\* only after that and after the pause), and exactly one post, the report,
\* when the comparison is absent or its classifications are null.
C17_TwoMessagesOrOne ==
    /\ (wa.pc = "returned" /\ waConfigured) =>
          /\ (wa.analise = "ok" /\ wa.posts[1] = <<"relatorio", TRUE>>) =>
                PostKinds = <<"relatorio", "analise">> /\ wa.delayed
          /\ wa.analise # "ok" => PostKinds = <<"relatorio">>
    /\ wa.pc = "post" => wa.posts = <<>>
    /\ wa.pc = "delay" => wa.posts = <<<<"relatorio", TRUE>>>> /\ ~wa.delayed
    /\ wa.pc = "postAnalise" => wa.posts = <<<<"relatorio", TRUE>>>> /\ wa.delayed

\* a call with classifications has returned after its two posts
C17_Witness ==
    /\ wa.pc = "returned"
    /\ wa.analise = "ok"
    /\ Len(wa.posts) = 2
    /\ wa.posts[2][1] = "analise"
    /\ wa.delayed

\* C19: within one call of sendRelatorio each message is posted at most
\* once; when the post of the report fails the call returns
\* {success: false, error} after that one post, without posting the
\* comparison.
C19_NoRetry ==
    /\ Cardinality({i \in DOMAIN wa.posts : wa.posts[i][1] = "relatorio"}) <= 1
    /\ Cardinality({i \in DOMAIN wa.posts : wa.posts[i][1] = "analise"}) <= 1
    /\ (wa.posts # <<>> /\ wa.posts[1] = <<"relatorio", FALSE>>) =>
          /\ wa.posts = <<<<"relatorio", FALSE>>>>
          /\ wa.pc = "returned"
          /\ wa.ret = [success |-> FALSE, error |-> "axios"]

\* the report of a call with classifications failed and the call returned
C19_Witness ==
    /\ wa.pc = "returned"
    /\ wa.analise = "ok"
    /\ wa.posts = <<<<"relatorio", FALSE>>>>
    /\ ~wa.ret.success

\* C20: a broadcast appends the event to the inbox of every connection that
\* is in clients and open, and to no other; no send is made on a connection
\* that is not open (nothing is raised), also when clients is empty.
C20_PublishReachesOpenViewers ==
    /\ [](rejected = 0)
    /\ [][published' # published =>
              /\ \A v \in Viewers :
                    inbox'[v] =
                        IF readyState[v] = "OPEN" /\ (\E i \in DOMAIN clients : clients[i] = v)
                        THEN Append(inbox[v], published')
                        ELSE inbox[v]
              /\ clients' = clients
              /\ readyState' = readyState]_vars

\* the last event skipped a closing connection and reached an open one that
\* comes after it in clients
C20_Witness ==
    /\ published > 0
    /\ \E i, j \in DOMAIN clients :
          /\ i < j
          /\ readyState[clients[i]] = "CLOSING"
          /\ inbox[clients[i]][Len(inbox[clients[i]])] # published
          /\ readyState[clients[j]] = "OPEN"
          /\ inbox[clients[j]][Len(inbox[clients[j]])] = published

\* the events of the broadcast calls that connection v was sent, in the
\* order in which they were sent (the greeting left out)
EventsSent(v) == SelectSeq(inbox[v], LAMBDA m : m # Greeting)

\* C21: what a connection was sent is a subsequence of the events in the
\* order of the broadcast calls (the events are numbered in that order, so
\* the numbers sent on one connection strictly increase), no event is sent
\* twice on one connection, and this is so whichever invocations made the
\* calls and however their calls alternate.
C21_PerViewerFifo ==
    /\ Len(publishers) = published
    /\ \A v \in Viewers :
          /\ \A i \in DOMAIN EventsSent(v) : EventsSent(v)[i] \in 1..published
          /\ \A i, j \in DOMAIN EventsSent(v) :
                i < j => EventsSent(v)[i] < EventsSent(v)[j]

\* two invocations alternated their broadcast calls; one connection was
\* sent all three events and another only the second
C21_Witness ==
    /\ published = 3
    /\ publishers[1] # publishers[2]
    /\ publishers[3] = publishers[1]
    /\ \E v, u \in Viewers :
          /\ EventsSent(v) = <<1, 2, 3>>
          /\ EventsSent(u) = <<2>>

\* calculateDayKPIs has returned for a 2xx answer with the given kind of body
KpisOf(kind) ==
    /\ kp.pc = "returned"
    /\ kp.configured
    /\ kp.response.status = 200
    /\ kp.response.data.kind = kind

CategoryOfTheCall ==
    CHOOSE c \in {"answered", "abandoned", "retained_ura", "other", "none"} :
        CASE c = "answered"     -> kp.ret.answered = Num(1)
          [] c = "abandoned"    -> kp.ret.abandoned = Num(1)
          [] c = "retained_ura" -> kp.ret.retainedURA = Num(1)
          [] c = "other"        -> kp.ret.other = Num(1)
          [] OTHER              -> /\ kp.ret.answered # Num(1)
                                   /\ kp.ret.abandoned # Num(1)
                                   /\ kp.ret.retainedURA # Num(1)
                                   /\ kp.ret.other # Num(1)

\* C23: the first rule that a call matches decides.  With the flag
\* (answered or atendida being true, 1 or '1') the call is answered whatever
\* its status and queue; without it a status with an answered-marker gives
\* answered; without that a status with an abandoned-marker gives
\* abandoned; without that a status with an IVR-marker, or an empty queue,
\* gives retained_ura; a call that matches none is other.
C23_FirstMatchWins ==
    (KpisOf("list") /\ Len(kp.response.data.calls) = 1) =>
        LET call == kp.response.data.calls[1]
            flag == \/ call.answered \in {Bool(TRUE), Num(1), Str(<<"1">>)}
                    \/ (~Truthy(call.answered)
                          /\ call.atendida \in {Bool(TRUE), Num(1), Str(<<"1">>)})
            status == IF Truthy(call.call_status) THEN call.call_status.s
                      ELSE IF Truthy(call.status) THEN call.status.s ELSE <<>>
            has(markers) == includes(toUpperCase(status), markers)
            emptyQueue == ~Truthy(call.call_queue) /\ ~Truthy(call.queue)
        IN  /\ flag => CategoryOfTheCall = "answered"
            /\ (~flag /\ has(AnsweredMarkers)) => CategoryOfTheCall = "answered"
            /\ (~flag /\ ~has(AnsweredMarkers) /\ has(AbandonedMarkers)) =>
                  CategoryOfTheCall = "abandoned"
            /\ (~flag /\ ~has(AnsweredMarkers) /\ ~has(AbandonedMarkers)
                  /\ (has(IvrMarkers) \/ emptyQueue)) =>
                  CategoryOfTheCall = "retained_ura"
            /\ (~flag /\ ~has(AnsweredMarkers) /\ ~has(AbandonedMarkers)
                  /\ ~has(IvrMarkers) /\ ~emptyQueue) =>
                  CategoryOfTheCall = "other"

\* a call without the flag whose status 'NO ANSWERED' has an answered-marker
\* and an abandoned-marker, and whose queue is empty, was counted as answered
C23_Witness ==
    /\ KpisOf("list")
    /\ Len(kp.response.data.calls) = 1
    /\ kp.response.data.calls[1].call_status
          = Str(<<"N", "O", " ", "A", "N", "S", "W", "E", "R", "E", "D">>)
    /\ kp.response.data.calls[1].answered = Undef
    /\ kp.response.data.calls[1].call_queue = Undef
    /\ kp.ret.answered = Num(1)

CountSent(v) ==
    CASE v = Num(2) -> 2
      [] v = Str(<<"3">>) -> 3
      [] v = Str(<<"1", "2">>) -> 12
      [] v = Num(5) -> 5
      [] v = Num(10) -> 10
      [] v = Str(<<"1", "5">>) -> 15
      [] OTHER -> 0

\* C25: for an aggregate, answered, abandoned and retainedURA are the
\* counts of totalCallAttendedReceptive, totalCallAbandonedQueue and
\* totalCallAbandonedURA (0 when absent), totalCalls is their sum, other is
\* 0, peakHour is null, and a waiting time "HH:MM:SS" gives
\* HH * 3600 + MM * 60 + SS seconds ('01:02:03' gives 3723, '00:00:06' gives
\* 6, an absent one 0).
C25_AggregateIsCopied ==
    KpisOf("object") =>
        LET object == kp.response.data.object
            waiting == object.timeMediumWaitingAttendance
        IN  /\ kp.ret.answered = Num(CountSent(object.totalCallAttendedReceptive))
            /\ kp.ret.abandoned = Num(CountSent(object.totalCallAbandonedQueue))
            /\ kp.ret.retainedURA = Num(CountSent(object.totalCallAbandonedURA))
            /\ kp.ret.totalCalls = Num(CountSent(object.totalCallAttendedReceptive)
                                        + CountSent(object.totalCallAbandonedQueue)
                                        + CountSent(object.totalCallAbandonedURA))
            /\ kp.ret.other = Num(0)
            /\ kp.ret.peakHour = <<>>
            /\ waiting = Undef => kp.ret.avgWaitTime = Num(0)
            /\ waiting = Str(<<"0", "1", ":", "0", "2", ":", "0", "3">>) =>
                  kp.ret.avgWaitTime = Num(3723)
            /\ waiting = Str(<<"0", "0", ":", "0", "0", ":", "0", "6">>) =>
                  kp.ret.avgWaitTime = Num(6)

\* an aggregate with the counters '12', 2 and '3' and the waiting time
\* '01:02:03' gave totalCalls 17
C25_Witness ==
    /\ KpisOf("object")
    /\ kp.response.data.object.totalCallAttendedReceptive = Str(<<"1", "2">>)
    /\ kp.response.data.object.totalCallAbandonedQueue = Num(2)
    /\ kp.response.data.object.totalCallAbandonedURA = Str(<<"3">>)
    /\ kp.ret.totalCalls = Num(17)
    /\ kp.ret.avgWaitTime = Num(3723)

\* C26: for a non-empty list of calls peakHour is an hour with the largest
\* number of calls, with that number, and among the hours with that number
\* it is the one that occurs first in the list.
C26_PeakHourIsFirstMaximum ==
    (KpisOf("list") /\ kp.response.data.calls # <<>>) =>
        LET calls == kp.response.data.calls
            callsAt(hour) == Cardinality({i \in DOMAIN calls : hourOf(calls[i]) = hour})
            busiest(i) == \A j \in DOMAIN calls :
                              callsAt(hourOf(calls[j])) <= callsAt(hourOf(calls[i]))
            first == CHOOSE i \in DOMAIN calls :
                        busiest(i) /\ \A j \in DOMAIN calls : busiest(j) => i <= j
        IN  kp.ret.peakHour = <<hourOf(calls[first]), callsAt(hourOf(calls[first]))>>

\* three calls at three different hours: the hour of the first one is the peak
C26_Witness ==
    /\ KpisOf("list")
    /\ Len(kp.response.data.calls) = 3
    /\ \A i, j \in 1..3 :
          i # j => hourOf(kp.response.data.calls[i]) # hourOf(kp.response.data.calls[j])
    /\ kp.ret.peakHour = <<hourOf(kp.response.data.calls[1]), 1>>

\* the request of day i of the history failed: no answer, or an answer with
\* a status of 400 or more
DayFailed(i) ==
    /\ hs.configured
    /\ hs.answers[i].status = 0 \/ hs.answers[i].status >= 400

\* day i of the history gave data: a 2xx answer with a body
DayGaveData(i) ==
    /\ hs.configured
    /\ hs.answers[i].status = 200
    /\ hs.answers[i].data.kind # "null"

\* m is sum / n rounded to the nearest integer (a half rounds up)
IsRoundedMean(m, sum, n) == 2 * n * m - n <= 2 * sum /\ 2 * sum < 2 * n * m + n

\* C27: fetchHistoricalData returns null when no day gave data; otherwise
\* it returns the records of the days that gave data, one each, and every
\* mean is the sum of the metric over those days divided by their number,
\* rounded to the nearest integer.
C27_MeansOverSuccessfulDays ==
    hs.pc = "returned" =>
        LET good == {i \in 1..hs.days : DayGaveData(i)}
            sent(i, field) == CountSent(hs.answers[i].data.object[field])
            RECURSIVE sum(_, _)
            sum(i, field) ==
                IF i = 0 THEN 0
                ELSE sum(i - 1, field) + (IF i \in good THEN sent(i, field) ELSE 0)
            attended == sum(hs.days, "totalCallAttendedReceptive")
            abandoned == sum(hs.days, "totalCallAbandonedQueue")
            ivr == sum(hs.days, "totalCallAbandonedURA")
            n == Cardinality(good)
        IN  IF good = {} THEN hs.ret = <<>>
            ELSE /\ hs.ret # <<>>
                 /\ hs.ret[1].dias = n
                 /\ Len(hs.ret[1].historico) = n
                 /\ \A i \in good : \E k \in DOMAIN hs.ret[1].historico :
                        /\ hs.ret[1].historico[k].date = 0 - i
                        /\ hs.ret[1].historico[k].total
                              = Num(sent(i, "totalCallAttendedReceptive")
                                    + sent(i, "totalCallAbandonedQueue")
                                    + sent(i, "totalCallAbandonedURA"))
                 /\ IsRoundedMean(hs.ret[1].medias.atendidas.n, attended, n)
                 /\ IsRoundedMean(hs.ret[1].medias.abandonadas.n, abandoned, n)
                 /\ IsRoundedMean(hs.ret[1].medias.retidasURA.n, ivr, n)
                 /\ IsRoundedMean(hs.ret[1].medias.total.n, attended + abandoned + ivr, n)

\* the events of fetchHistoricalData(days) in the order the claim gives
\* them: for i = 1, ..., days the call of fetchDayData for the day i days
\* before the call, its end, the end of the pause
DayEvent(k) ==
    <<(<<"fetchDayData", "resolved", "paused">>)[((k - 1) % 3) + 1],
      ((k - 1) \div 3) + 1, 0 - (((k - 1) \div 3) + 1)>>

\* C28: fetchHistoricalData(days) calls fetchDayData once for every i in
\* 1..days, for the day i days before the call and never for the day of
\* the call, one call after the other: the call for day i + 1 is made after
\* the call for day i has ended and the pause after it is over, and the
\* loop ends after `days` calls whatever they gave.
C28_OneFetchPerDayInSequence ==
    /\ Len(hs.trace) <= 3 * hs.days
    /\ \A k \in DOMAIN hs.trace : hs.trace[k] = DayEvent(k)
    /\ hs.pc \in {"logEnd", "returned"} => Len(hs.trace) = 3 * hs.days
    /\ hs.pc = "fetch" => Len(hs.trace) % 3 = 1
    /\ hs.pc = "pause" => Len(hs.trace) % 3 = 2

\* a call for three days has returned after three calls of fetchDayData,
\* the first of which got no answer
C28_Witness ==
    /\ hs.pc = "returned"
    /\ hs.days = 3
    /\ hs.configured
    /\ hs.answers[1].status = 0
    /\ Len(hs.trace) = 9
    /\ hs.trace[7] = <<"fetchDayData", 3, 0 - 3>>

\* C29: a day whose request failed (no answer, a timeout, or an answer with
\* a status of 400 or more, 417 included) gives no record: historico holds
\* no record of its date, so the day is no term of any mean.
C29_FailedDayIsOmitted ==
    \A i \in DOMAIN hs.answers :
        DayFailed(i) => \A k \in DOMAIN hs.historico : hs.historico[k].date # 0 - i

\* C30: with a mean of 0 the level is 'indefinido' whatever the value.
\* Otherwise percentual is value / mean * 100 rounded to a nearest integer,
\* and the level is 'Abaixo do comum' below 70, 'Médio' from 70 to 99,
\* 'Alto' from 100 to 129 and 'Altíssimo' from 130 on; against a mean of
\* 100 the values 65, 99, 100 and 130 give these four levels.  Every pair
\* gets one of the five levels.
C30_LevelOfValueAgainstMean ==
    lv.pc = "returned" =>
        LET p == lv.ret.percentual
            nivel == lv.ret.nivel
        IN  /\ nivel \in {"indefinido", "Abaixo do comum", "Médio", "Alto", "Altíssimo"}
            /\ lv.media = 0 <=> nivel = "indefinido"
            /\ lv.media # 0 =>
                  /\ 2 * lv.media * p - lv.media <= 200 * lv.valorAtual
                  /\ 200 * lv.valorAtual <= 2 * lv.media * p + lv.media
                  /\ p < 70 <=> nivel = "Abaixo do comum"
                  /\ (70 <= p /\ p <= 99) <=> nivel = "Médio"
                  /\ (100 <= p /\ p <= 129) <=> nivel = "Alto"
                  /\ p >= 130 <=> nivel = "Altíssimo"
            /\ lv.media = 100 =>
                  /\ lv.valorAtual = 65 => nivel = "Abaixo do comum"
                  /\ lv.valorAtual = 99 => nivel = "Médio"
                  /\ lv.valorAtual = 100 => nivel = "Alto"
                  /\ lv.valorAtual = 130 => nivel = "Altíssimo"

\* a value equal to its mean was classified 'Alto', at 100 per cent
C30_Witness ==
    /\ lv.pc = "returned"
    /\ lv.valorAtual = 100
    /\ lv.media = 100
    /\ lv.ret = [nivel |-> "Alto", percentual |-> 100]

\* c is the classification of valor against media: 'indefinido' for a mean
\* of 0, otherwise the level of the band that holds the percentage, which
\* is valor / media * 100 rounded to a nearest integer
IsLevelOf(c, valor, media) ==
    IF media = 0 THEN c.nivel = "indefinido"
    ELSE /\ 2 * media * c.percentual - media <= 200 * valor
         /\ 200 * valor <= 2 * media * c.percentual + media
         /\ c.nivel = IF c.percentual < 70 THEN "Abaixo do comum"
                      ELSE IF c.percentual < 100 THEN "Médio"
                      ELSE IF c.percentual < 130 THEN "Alto"
                      ELSE "Altíssimo"

\* C31: analisarDiaAtual always returns, with the KPIs of the day as
\* calculateDayKPIs gave them.  When fetchHistoricalData gave null the
\* object has historico null, analise null and the error text; otherwise
\* it has the history, no error text, the classification of answered,
\* abandoned, retained in the IVR and total, each against the historical
\* mean of that same metric, and a summary made of the classification of
\* the total.
C31_AnalysisOrSoftFailure ==
    an.pc = "returned" =>
        /\ kp.pc = "returned" /\ hs.pc = "returned"
        /\ an.ret.hoje = kp.ret
        /\ an.ret.historico = hs.ret
        /\ IF hs.ret = <<>>
           THEN /\ an.ret.analise = <<>>
                /\ an.ret.erro # <<>>
           ELSE LET analise == an.ret.analise[1]
                    medias == hs.ret[1].medias
                IN  /\ Len(an.ret.analise) = 1
                    /\ an.ret.erro = <<>>
                    /\ DOMAIN analise = {"atendidas", "abandonadas", "retidasURA", "total"}
                    /\ IsLevelOf(analise.atendidas, kp.ret.answered.n, medias.atendidas.n)
                    /\ IsLevelOf(analise.abandonadas, kp.ret.abandoned.n,
                                 medias.abandonadas.n)
                    /\ IsLevelOf(analise.retidasURA, kp.ret.retainedURA.n,
                                 medias.retidasURA.n)
                    /\ IsLevelOf(analise.total, kp.ret.totalCalls.n, medias.total.n)
                    /\ an.ret.resumo = <<analise.total>>

\* the day had 12 answered calls and no day of the history gave data: the
\* analysis returned them with the error text and nothing else
C31_Witness ==
    /\ an.pc = "returned"
    /\ hs.configured
    /\ hs.ret = <<>>
    /\ an.ret.hoje.answered = Num(12)
    /\ an.ret.historico = <<>>
    /\ an.ret.analise = <<>>
    /\ an.ret.erro # <<>>

\* connection v is in clients
InClients(v) == \E i \in DOMAIN clients : clients[i] = v

\* C32: a connection is in clients, once, from its connection event on and
\* as long as neither its close handler nor its error handler has run; it
\* leaves clients only while closing or failing, never comes back and is
\* sent nothing more; getClientCount returns the number of connections in
\* clients; and a broadcast sends nothing on a connection that is in
\* clients and not open.
C32_ConnectedSetFollowsConnections ==
    /\ [](\A v \in Viewers :
            /\ readyState[v] = "NONE" => ~InClients(v)
            /\ readyState[v] = "OPEN" => InClients(v)
            /\ readyState[v] = "CLOSED" => ~InClients(v)
            /\ Cardinality({i \in DOMAIN clients : clients[i] = v}) <= 1)
    /\ [][\A v \in Viewers :
            /\ (InClients(v) /\ ~InClients(v)') =>
                  /\ readyState[v] \in {"OPEN", "CLOSING"}
                  /\ readyState'[v] \in {"CLOSING", "CLOSED"}
            /\ (readyState[v] # "NONE" /\ ~InClients(v)) =>
                  /\ ~InClients(v)'
                  /\ inbox'[v] = inbox[v]
            /\ (InClients(v) /\ readyState[v] # "OPEN") => inbox'[v] = inbox[v]]_vars
    /\ [][clientCount' # clientCount =>
            clientCount' = Cardinality({v \in Viewers : InClients(v)})]_vars

\* a connection failed and left clients, an event was published after
\* that and reached the other connection only, and getClientCount then
\* returned 1
C32_Witness ==
    \E v, u \in Viewers :
        /\ readyState[v] = "CLOSING" /\ ~InClients(v)
        /\ readyState[u] = "OPEN"
        /\ published = 1
        /\ inbox[v] = <<Greeting>>
        /\ inbox[u] = <<Greeting, 1>>
        /\ clientCount = 1

\* C33: once a delivery with the valid token has been answered 200, its
\* call is in the list of calls of the day of the delivery.
C33_AcceptedDeliveryIsCached ==
    (hook.pc = "answered" /\ validateToken(hook.token) /\ hook.status = 200) =>
        \E i \in DOMAIN callsFile[hook.date].calls :
            callsFile[hook.date].calls[i] = hook.call

\* C34: the record of an execution whose dispatch succeeded carries the
\* identifier the dispatcher got for that send.
C34_DispatchIdIsRecorded ==
    \A i \in DOMAIN executionHistory :
        executionHistory[i].success =>
            executionHistory[i].messageId = DispatchId(executionHistory[i].exec)

\* the sum of a field over the first i records of the returned history
RECURSIVE SumOfRecords(_, _)
SumOfRecords(field, i) ==
    IF i = 0 THEN 0 ELSE SumOfRecords(field, i - 1) + hs.ret[1].historico[i][field].n

\* C35 as it was stated: the returned history has a mean for each of four
\* metrics (answered, abandoned, retained in the IVR, other) and for the
\* total, and every record of a day has those four counts and the total.
C35_FourMetricsAndTotal ==
    (hs.pc = "returned" /\ hs.ret # <<>>) =>
        /\ DOMAIN hs.ret[1].medias
              = {"atendidas", "abandonadas", "retidasURA", "outras", "total"}
        /\ \A k \in DOMAIN hs.ret[1].historico :
              DOMAIN hs.ret[1].historico[k]
                  = {"date", "atendidas", "abandonadas", "retidasURA", "outras", "total"}

\* C35: the returned history has a mean for each of three metrics
\* (answered, abandoned, retained in the IVR) and for the total, each the
\* sum of that field over the records divided by their number and rounded
\* to the nearest integer; every record has the date, those three counts
\* and a total that is their sum; nothing is kept of 'other'.
C35_ThreeMetricsAndTotal ==
    (hs.pc = "returned" /\ hs.ret # <<>>) =>
        LET h == hs.ret[1]
            n == Len(h.historico)
        IN  /\ n > 0 /\ h.dias = n
            /\ DOMAIN h.medias = {"atendidas", "abandonadas", "retidasURA", "total"}
            /\ \A field \in DOMAIN h.medias :
                  IsRoundedMean(h.medias[field].n, SumOfRecords(field, n), n)
            /\ \A k \in 1..n :
                  /\ DOMAIN h.historico[k]
                        = {"date", "atendidas", "abandonadas", "retidasURA", "total"}
                  /\ h.historico[k].total.n
                        = h.historico[k].atendidas.n + h.historico[k].abandonadas.n
                          + h.historico[k].retidasURA.n

\* two days gave 10 and 15 answered calls: the mean of 12.5 is returned as 13
C35_Witness ==
    /\ hs.pc = "returned"
    /\ hs.ret # <<>>
    /\ hs.ret[1].dias = 2
    /\ hs.ret[1].historico[1].atendidas = Num(10)
    /\ hs.ret[1].historico[2].atendidas = Num(15)
    /\ hs.ret[1].medias.atendidas = Num(13)

\* C36: with the messaging API not configured no invocation posts
\* anything (neither the report nor the comparison) or waits for a post,
\* and an invocation that has ended left one record, with success = false
\* and the error of the configuration, and announced execution_error only.
C36_NotConfiguredSendsNothing ==
    ~waConfigured =>
        \A e \in ExecIds :
            /\ ex[e].posts = <<>> /\ ex[e].msgs = <<>>
            /\ ex[e].pc \notin {"send", "delay", "sendAnalise"}
            /\ ex[e].pc = "done" =>
                  /\ \E i \in DOMAIN executionHistory : RecordsOf(e) = {i}
                  /\ \A i \in RecordsOf(e) :
                        /\ ~executionHistory[i].success
                        /\ executionHistory[i].error = "notConfigured"
                  /\ {ex[e].trace[j][1] : j \in EventsOf(e)} = {"execution_error"}

\* not configured: an invocation computed its KPIs and the comparison,
\* called sendRelatorio and ended with a failed record
C36_Witness ==
    /\ ~waConfigured
    /\ \E e \in ExecIds :
          /\ ex[e].pc = "done"
          /\ \E j \in DOMAIN ex[e].trace : ex[e].trace[j][1] = "send_start"
          /\ \E i \in RecordsOf(e) :
                /\ ~executionHistory[i].success
                /\ executionHistory[i].kpis \in KpiValues
                /\ executionHistory[i].error = "notConfigured"

\* C37: an invocation computes the KPIs of the day twice, at two
\* suspensions (calculateDayKPIs of executeReport, then calculateDayKPIs of
\* analisarDiaAtual); from the second on, the KPIs of executeReport are
\* still those of the first, the report message carries them, and so does
\* the record, whatever the second computation gave.
C37_RecordKeepsFirstKpis ==
    /\ [](\A e \in ExecIds :
            /\ ex[e].pc \in {"analiseHist", "send", "delay", "sendAnalise"} =>
                  /\ ComputedKpis(e) = {ex[e].kpis}
                  /\ ex[e].hoje \in KpiValues
            /\ \A j \in DOMAIN ex[e].msgs :
                  ex[e].msgs[j][1] = "relatorio" => ComputedKpis(e) = {ex[e].msgs[j][2]}
            /\ \A i \in RecordsOf(e) : ComputedKpis(e) = {executionHistory[i].kpis})
    /\ [][\A e \in ExecIds :
            /\ (ex[e].pc = "kpis" /\ ex'[e].pc # "kpis") => ex'[e].pc = "analiseKpis"
            /\ (ex[e].pc = "analiseKpis" /\ ex'[e].pc # "analiseKpis") =>
                  /\ ex'[e].pc = "analiseHist"
                  /\ ex'[e].kpis = ex[e].kpis]_vars

\* the two computations of an invocation gave different KPIs: the report
\* and the record carry the first, the comparison message the second
C37_Witness ==
    \E e \in ExecIds :
        /\ ex[e].pc = "done"
        /\ ex[e].msgs = <<<<"relatorio", 1>>, <<"analise", 2>>>>
        /\ \E i \in RecordsOf(e) :
              executionHistory[i].success /\ executionHistory[i].kpis = 1

\* C38: in sequential use, the step at which addCall writes the list adds
\* its call at the end of the list of its day: the calls stored before are
\* all there, in their order, the count of the day grows by one, and the
\* lists of the other days stay; addCall returns true only after that
\* step, and when the write fails it returns false and no list changes.
C38_AddCallAppendsInTurn ==
    [][\A a \in AddIds :
          LET d == adds[a].date
              before == getTodayCalls(callsFile[d])
          IN  /\ (adds[a].pc = "write" /\ adds'[a].pc = "meta") =>
                    /\ getTodayCalls(callsFile'[d]) = Append(before, a)
                    /\ countTodayCalls(callsFile'[d]) = countTodayCalls(callsFile[d]) + 1
                    /\ \A i \in DOMAIN before : callsFile'[d].calls[i] = before[i]
                    /\ \A o \in Dates : o # d => callsFile'[o] = callsFile[o]
              /\ (adds[a].pc = "write" /\ adds'[a].pc = "done") =>
                    /\ ~adds'[a].ret
                    /\ callsFile' = callsFile
              /\ (adds[a].pc # "done" /\ adds'[a].pc = "done" /\ adds'[a].ret) =>
                    /\ adds[a].pc = "meta"
                    /\ \E i \in DOMAIN callsFile[d].calls : callsFile[d].calls[i] = a]_vars

\* two addCall invocations of one day, one after the other, both returned
\* true and the list holds the first call, then the second
C38_Witness ==
    /\ adds[1].pc = "done" /\ adds[1].ret
    /\ adds[2].pc = "done" /\ adds[2].ret
    /\ adds[1].date = adds[2].date
    /\ callsFile[adds[1].date].calls = <<1, 2>>

\* C39: hasCache returns true and removes nothing when the list of the day
\* exists and its metadata cannot be read; getCacheTTL never returns 0: it
\* returns -1 when the metadata cannot be read or have expired, and
\* otherwise the seconds that remain, a positive number.
C39_TtlOfMissingOrExpired ==
    /\ [][(rd.pc = "readMeta" /\ rd' # rd /\ ~metadataFile[rd.date].exists) =>
              /\ rd'.pc = "done" /\ rd'.found
              /\ callsFile' = callsFile /\ metadataFile' = metadataFile]_vars
    /\ [][(rd' # rd /\ rd'.op = "getCacheTTL") =>
              LET m == metadataFile[rd'.date]
              IN  /\ rd'.ttl # 0
                  /\ IF ~m.exists \/ m.expiresAt < clock
                     THEN rd'.ttl = -1
                     ELSE rd'.ttl > 0 /\ rd'.ttl = m.expiresAt - clock]_vars

\* C40: getTodayCalls, countTodayCalls and getCacheTTL leave every list and
\* every metadata file as they are, expired or not; among the read
\* accesses only hasCache removes files, those of its date, and only after
\* it has read metadata that had expired.
C40_ReadsDoNotWrite ==
    /\ [][(rd' # rd /\ rd'.op \in {"getTodayCalls", "countTodayCalls", "getCacheTTL"}) =>
              callsFile' = callsFile /\ metadataFile' = metadataFile]_vars
    /\ [][(rd' # rd /\ (callsFile' # callsFile \/ metadataFile' # metadataFile)) =>
              /\ rd.op = "hasCache"
              /\ rd.pc \in {"unlinkFile", "unlinkMeta"}
              /\ \A o \in Dates : o # rd.date =>
                    callsFile'[o] = callsFile[o] /\ metadataFile'[o] = metadataFile[o]]_vars
    /\ [][(rd.pc = "readMeta" /\ rd'.pc = "unlinkFile") =>
              /\ metadataFile[rd.date].exists
              /\ metadataFile[rd.date].expiresAt < clock]_vars

\* the list of day 0 has expired: getTodayCalls has just returned its call
\* and both files are still there
C40_Witness ==
    /\ rd.op = "getTodayCalls" /\ rd.date = 0
    /\ rd.calls # <<>>
    /\ metadataFile[0].exists /\ metadataFile[0].expiresAt < rd.since
    /\ callsFile[0].exists

====
